---- MODULE Spec2Model ----
(***************************************************************************)
(* Model of the statistical anomaly detection engine of RichardOps         *)
(* (backend/services/anomaly_detection.py): AnomalyDetectionService, its   *)
(* statistics helpers, its four sub-detectors and the orchestrator         *)
(* detect_all_anomalies.                                                   *)
(*                                                                         *)
(* Numbers.  Python floats are modelled in fixed point:                    *)
(*   - metric values are whole numbers (percent, connections);             *)
(*   - means, z-scores, confidences and thresholds on them carry the       *)
(*     suffix M and are in thousandths (2.0 is 2000, 0.7 is 700);          *)
(*   - a standard deviation carries the suffix C and is in hundredths.     *)
(* Times are whole minutes.                                                *)
(***************************************************************************)
EXTENDS Integers, Sequences, FiniteSets, TLC

(***************************************************************************)
(* Generic helpers                                                         *)
(***************************************************************************)
Null == -1

Abs(x) == IF x < 0 THEN -x ELSE x

Min(a, b) == IF a <= b THEN a ELSE b

Max(a, b) == IF a >= b THEN a ELSE b

RECURSIVE SumSeq(_)
SumSeq(s) == IF s = << >> THEN 0 ELSE Head(s) + SumSeq(Tail(s))

RECURSIVE SumSq(_)
SumSq(s) == IF s = << >> THEN 0 ELSE Head(s) * Head(s) + SumSq(Tail(s))

RECURSIVE SelectNonNull(_)
SelectNonNull(s) ==
    IF s = << >> THEN << >>
    ELSE IF Head(s) = Null THEN SelectNonNull(Tail(s))
         ELSE << Head(s) >> \o SelectNonNull(Tail(s))

RECURSIVE MaxOfAbs(_)
MaxOfAbs(s) == IF s = << >> THEN 0 ELSE Max(Abs(Head(s)), MaxOfAbs(Tail(s)))

\* floor(sqrt(n)) by bisection on lo..hi (lo*lo <= n < (hi+1)*(hi+1))
RECURSIVE ISqrtR(_, _, _)
ISqrtR(n, lo, hi) ==
    IF lo >= hi THEN lo
    ELSE LET mid == (lo + hi + 1) \div 2
         IN  IF mid * mid <= n THEN ISqrtR(n, mid, hi) ELSE ISqrtR(n, lo, mid - 1)

ISqrt(n) == ISqrtR(n, 0, 46340)

\* floor(1000 * num / den) for 0 <= num < den, both scaled down together
\* first so that the product stays inside the machine integers
RatioM(num, den) ==
    LET k == (den \div 1000000) + 1
    IN  (1000 * (num \div k)) \div (den \div k)

(***************************************************************************)
(* Statistics library                                                      *)
(***************************************************************************)
\* _calculate_statistics: mean (thousandths) and sample standard deviation
\* (ddof = 1, hundredths); the all-zero record for fewer than 2 values.
\* With d = x - x[1]:  mean = x[1] + Sum(d)/n  and
\* var = (n*Sum(d^2) - Sum(d)^2) / (n*(n-1)); the quotient is taken in two
\* stages to keep four decimals inside the machine integers.
_calculate_statistics(values) ==
    LET n == Len(values)
    IN  IF n < 2 THEN [mean |-> 0, std |-> 0]
        ELSE LET d  == [i \in 1..n |-> values[i] - values[1]]
                 s  == SumSeq(d)
                 q  == n * SumSq(d) - s * s
                 p  == n * (n - 1)
                 v4 == (q \div p) * 10000 + ((q % p) * 10000) \div p
             IN  [mean |-> 1000 * values[1] + (1000 * s) \div n, std |-> ISqrt(v4)]

\* _calculate_zscore without the test for a zero standard deviation: the
\* divisor is kept away from zero instead
_calculate_zscore_unguarded(valueM, baseline_stats) ==
    (Abs(valueM - baseline_stats.mean) * 100) \div Max(baseline_stats.std, 1)

\* _calculate_zscore of a detector that scores rises only: a value below
\* the mean scores 0
_calculate_zscore_rising(valueM, baseline_stats) ==
    IF baseline_stats.std = 0 \/ valueM < baseline_stats.mean THEN 0 ELSE ((valueM - baseline_stats.mean) * 100) \div baseline_stats.std

\* _calculate_zscore: abs(value - mean) / std, 0 when std is 0 (thousandths)
_calculate_zscore(valueM, baseline_stats) ==
    IF baseline_stats.std = 0 THEN 0
    ELSE (Abs(valueM - baseline_stats.mean) * 100) \div baseline_stats.std

\* 1000 / (1 + exp(2 - z)) for z = 0.0, 0.1, ..., 9.0, rounded down; the
\* logistic curve of _calculate_confidence tabulated per tenth of z.
SigmoidTable ==
    << 119, 130, 141, 154, 167, 182, 197, 214, 231, 249,
       268, 289, 310, 331, 354, 377, 401, 425, 450, 475,
       500, 524, 549, 574, 598, 622, 645, 668, 689, 710,
       731, 750, 768, 785, 802, 817, 832, 845, 858, 869,
       880, 890, 900, 908, 916, 924, 930, 937, 942, 947,
       952, 956, 960, 964, 967, 970, 973, 975, 978, 980,
       982, 983, 985, 986, 987, 989, 990, 990, 991, 992,
       993, 993, 994, 995, 995, 995, 996, 996, 996, 997,
       997, 997, 997, 998, 998, 998, 998, 998, 998, 998, 999 >>

Sigmoid(zM) ==
    LET i == zM \div 100
    IN  IF i >= Len(SigmoidTable) THEN 999 ELSE SigmoidTable[i + 1]

\* _calculate_confidence with the two sample terms added, not averaged, and
\* the final min(confidence, 1.0) left out
_calculate_confidence_unclamped(zscoreM, baseline_samples, recent_samples, trend_consistencyM) ==
    LET zscore_confidence   == Sigmoid(zscoreM)
        baseline_confidence == Min((baseline_samples * 1000) \div 50, 1000)
        recent_confidence   == Min((recent_samples * 1000) \div 10, 1000)
        sample_confidence   == baseline_confidence + recent_confidence
    IN  (((zscore_confidence * sample_confidence) \div 1000) * trend_consistencyM) \div 1000

\* _calculate_confidence called without its fourth argument, whose default
\* is 1.0
_calculate_confidence_untrended(zscoreM, baseline_samples, recent_samples, trend_consistencyM) ==
    Min((Sigmoid(zscoreM) * ((Min((baseline_samples * 1000) \div 50, 1000) + Min((recent_samples * 1000) \div 10, 1000)) \div 2)) \div 1000, 1000)

\* _calculate_confidence (thousandths)
_calculate_confidence(zscoreM, baseline_samples, recent_samples, trend_consistencyM) ==
    LET zscore_confidence   == Sigmoid(zscoreM)
        baseline_confidence == Min((baseline_samples * 1000) \div 50, 1000)
        recent_confidence   == Min((recent_samples * 1000) \div 10, 1000)
        sample_confidence   == (baseline_confidence + recent_confidence) \div 2
        confidence == (((zscore_confidence * sample_confidence) \div 1000)
                          * trend_consistencyM) \div 1000
    IN  Min(confidence, 1000)

\* the moving sums of window_size consecutive values (5 * moving average)
MovingSums(values, window_size) ==
    [i \in 1..(Len(values) - window_size + 1) |->
        SumSeq(SubSeq(values, i, i + window_size - 1))]

\* _detect_trend of a service that takes every series for a perfect fit
_detect_trend_trusting(values, window_size) == [trend |-> "stable", slope5M |-> 0, consistency |-> 1000]

\* _detect_trend: least-squares slope over the moving averages and the
\* goodness of fit of the line  slope * x + moving_avgs[0].
\* With d[i] = y[i] - y[0], u[i] = 2*i - (m-1), U = Sum u^2 and T = Sum u*d
\* the slope is 2T/U, the residual of point i is d[i] - (2T/U)*i, and
\* mse / var = Sum residual^2 / (Sum d^2 - (Sum d)^2 / m).
\* The ratio does not change when every y is multiplied by a constant: the
\* moving sums stand for the moving averages (slope5M is 5 * slope in
\* thousandths), and the deviations d are rescaled to the range -1000..1000
\* before the squares are taken.
_detect_trend(values, window_size) ==
    IF Len(values) < window_size
    THEN [trend |-> "insufficient_data", slope5M |-> 0, consistency |-> 0]
    ELSE
      LET y == MovingSums(values, window_size)
          m == Len(y)
      IN  IF m < 2
          THEN [trend |-> "insufficient_data", slope5M |-> 0, consistency |-> 0]
          ELSE
            LET u(i) == 2 * i - (m - 1)
                U == SumSeq([i \in 1..m |-> u(i - 1) * u(i - 1)])
                T == SumSeq([i \in 1..m |-> u(i - 1) * (y[i] - y[1])])
                slope5M == ((2 * T) \div U) * 1000 + (((2 * T) % U) * 1000) \div U
                R  == MaxOfAbs([i \in 1..m |-> y[i] - y[1]])
                d  == [i \in 1..m |-> ((y[i] - y[1]) * 1000) \div R]
                Td == SumSeq([i \in 1..m |-> u(i - 1) * d[i]])
                residual == [i \in 1..m |-> d[i] - (2 * Td * (i - 1)) \div U]
                sse == SumSq(residual)
                sst == SumSq(d) - (SumSeq(d) * SumSeq(d)) \div m
                cons == IF R = 0 \/ sst <= 0 THEN 0
                        ELSE IF sse >= sst THEN 0
                        ELSE 1000 - RatioM(sse, sst)
            IN  [trend |-> IF Abs(slope5M) < 500 THEN "stable"
                           ELSE IF slope5M > 0 THEN "increasing"
                           ELSE "decreasing",
                 slope5M |-> slope5M,
                 consistency |-> cons]

(***************************************************************************)
(* Configuration: AnomalyThresholds with its default values.  The record's *)
(* fields are the attributes of the dataclass; reading a field the record  *)
(* does not have is Python's AttributeError.                               *)
(***************************************************************************)
AnomalyThresholds ==
    [ cpu_spike_zscore            |-> 2000,
      memory_spike_zscore         |-> 2000,
      disk_spike_zscore           |-> 1800,
      connection_spike_zscore     |-> 2500,
      cpu_spike_threshold         |-> 30,
      memory_spike_threshold      |-> 25,
      disk_spike_threshold        |-> 20,
      connection_spike_threshold  |-> 500,
      min_baseline_samples        |-> 10,
      min_recent_samples          |-> 5,
      min_confidence              |-> 700,
      high_confidence             |-> 900,
      ip_request_threshold        |-> 100,
      error_rate_threshold        |-> 10,
      event_volume_threshold      |-> 100,
      container_restart_threshold |-> 5,
      baseline_hours              |-> 24,
      comparison_windows          |-> << 1, 3, 6 >> ]

HasAttr(obj, name) == name \in DOMAIN obj

MinutesPerHour == 60

(***************************************************************************)
(* Store rows.                                                             *)
(*   metrics row: [timestamp, cpu_usage, memory_usage, disk_usage,         *)
(*                 tcp_connections]; a value is a number, Null (SQL NULL)  *)
(*                 or NonNumeric (a value float() rejects)                 *)
(*   log row:     [container, message, timestamp]; a message is a sequence *)
(*                 of tokens, a token a word or an IPv4 literal            *)
(*   event row:   [type, action, container, timestamp]                     *)
(* An absent text attribute (None) is NoText; NonText stands for a value   *)
(* that is not a string.                                                   *)
(***************************************************************************)
NonNumeric == -2

NoText == ""

NonText == "<non-text>"

MetricNames == << "cpu_usage", "memory_usage", "disk_usage", "tcp_connections" >>

\* getattr(m, metric_name)
GetAttr(m, metric_name) ==
    CASE metric_name = "cpu_usage"       -> m.cpu_usage
      [] metric_name = "memory_usage"    -> m.memory_usage
      [] metric_name = "disk_usage"      -> m.disk_usage
      [] metric_name = "tcp_connections" -> m.tcp_connections

\* the rows with lo <= timestamp < hi, in store order
SelectRows(rows, lo, hi) ==
    SelectSeq(rows, LAMBDA r : lo <= r.timestamp /\ r.timestamp < hi)

\* the rows with timestamp >= lo, in store order
SelectRowsFrom(rows, lo) == SelectSeq(rows, LAMBDA r : r.timestamp >= lo)

\* ORDER BY timestamp (ascending; rows of equal timestamp keep store order):
\* row i goes to position pos[i], one more than the number of rows before it
OrderByTimestamp(rows) ==
    CHOOSE ordered \in
        { [k \in 1..Len(p[1]) |-> p[1][CHOOSE i \in 1..Len(p[1]) : p[2][i] = k]] :
            p \in { << r, [i \in 1..Len(r) |->
                            1 + Cardinality({ j \in 1..Len(r) :
                                    \/ r[j].timestamp < r[i].timestamp
                                    \/ r[j].timestamp = r[i].timestamp /\ j < i })] >> :
                        r \in { rows } } } : TRUE

\* [float(getattr(m, name)) for m in rows if getattr(m, name) is not None]
MetricValues(rows, metric_name) ==
    SelectNonNull([i \in 1..Len(rows) |-> GetAttr(rows[i], metric_name)])

\* float() raises on a value that is not a number
HasNonNumeric(rows, metric_name) ==
    \E i \in 1..Len(rows) : GetAttr(rows[i], metric_name) = NonNumeric

\* statistics.mean (thousandths)
MeanM(values) == (1000 * SumSeq(values)) \div Len(values)

(***************************************************************************)
(* Metric spike analyzer                                                   *)
(***************************************************************************)
\* metrics_config of _analyze_metrics_statistically; the percentage
\* threshold of tcp_connections is None (Null)
MetricsConfig(thresholds, metric_name) ==
    CASE metric_name = "cpu_usage" ->
           [zscore_threshold     |-> thresholds.cpu_spike_zscore,
            percentage_threshold |-> thresholds.cpu_spike_threshold,
            resource_name        |-> "system_cpu"]
      [] metric_name = "memory_usage" ->
           [zscore_threshold     |-> thresholds.memory_spike_zscore,
            percentage_threshold |-> thresholds.memory_spike_threshold,
            resource_name        |-> "system_memory"]
      [] metric_name = "disk_usage" ->
           [zscore_threshold     |-> thresholds.disk_spike_zscore,
            percentage_threshold |-> thresholds.disk_spike_threshold,
            resource_name        |-> "system_disk"]
      [] metric_name = "tcp_connections" ->
           [zscore_threshold     |-> thresholds.connection_spike_zscore,
            percentage_threshold |-> Null,
            resource_name        |-> "network_connections"]

\* _analyze_metric_window: the z-score of the mean of the recent rows of the
\* last window_hours hours; any exception inside gives {anomaly: False}
_analyze_metric_window(baseline_metrics, recent_metrics, metric_name, window_hours, now) ==
    LET window_start   == now - window_hours * MinutesPerHour
        window_metrics == SelectRowsFrom(recent_metrics, window_start)
        no_anomaly     == [window_hours |-> window_hours, anomaly |-> FALSE, zscore |-> Null]
    IN  IF window_metrics = << >> THEN no_anomaly
        ELSE IF HasNonNumeric(window_metrics, metric_name) THEN no_anomaly
        ELSE LET window_values == MetricValues(window_metrics, metric_name)
             IN  IF window_values = << >> THEN no_anomaly
                 ELSE IF HasNonNumeric(baseline_metrics, metric_name) THEN no_anomaly
                 ELSE LET baseline_values == MetricValues(baseline_metrics, metric_name)
                      IN  IF baseline_values = << >> THEN no_anomaly
                          ELSE LET baseline_stats == _calculate_statistics(baseline_values)
                                   window_avg     == MeanM(window_values)
                                   zscore == _calculate_zscore(window_avg, baseline_stats)
                               IN  [window_hours |-> window_hours,
                                    anomaly      |-> zscore >= 1500,
                                    zscore       |-> zscore]

\* _determine_severity with the MEDIUM rule written as a band below the
\* metric's high cut
_determine_severity_banded(zscore, confidence, metric_name, self_thresholds) ==
    LET high_zscore_threshold ==
            CASE metric_name = "cpu_usage"       -> 2500
              [] metric_name = "memory_usage"    -> 2500
              [] OTHER                           -> 3000
        critical_zscore_threshold ==
            CASE metric_name = "cpu_usage"       -> 3500
              [] metric_name = "memory_usage"    -> 3500
              [] metric_name = "tcp_connections" -> 4500
              [] OTHER                           -> 4000
    IN  IF zscore >= critical_zscore_threshold /\ confidence >= self_thresholds.high_confidence
        THEN "HIGH"
        ELSE IF zscore >= high_zscore_threshold /\ confidence >= 800 THEN "HIGH"
        ELSE IF zscore >= 2000 /\ zscore < high_zscore_threshold /\ confidence >= 700
        THEN "MEDIUM"
        ELSE "LOW"

\* _determine_severity with > where the code has >=
_determine_severity_strict(zscore, confidence, metric_name, self_thresholds) ==
    LET high_zscore_threshold ==
            CASE metric_name = "cpu_usage"       -> 2500
              [] metric_name = "memory_usage"    -> 2500
              [] OTHER                           -> 3000
        critical_zscore_threshold ==
            CASE metric_name = "cpu_usage"       -> 3500
              [] metric_name = "memory_usage"    -> 3500
              [] metric_name = "tcp_connections" -> 4500
              [] OTHER                           -> 4000
    IN  IF zscore > critical_zscore_threshold /\ confidence > self_thresholds.high_confidence
        THEN "HIGH"
        ELSE IF zscore > high_zscore_threshold /\ confidence > 800 THEN "HIGH"
        ELSE IF zscore > 2000 /\ confidence > 700 THEN "MEDIUM"
        ELSE "LOW"

\* _determine_severity without its second HIGH rule
_determine_severity_one_high_rule(zscore, confidence, metric_name, self_thresholds) ==
    LET critical_zscore_threshold ==
            CASE metric_name = "cpu_usage"       -> 3500
              [] metric_name = "memory_usage"    -> 3500
              [] metric_name = "tcp_connections" -> 4500
              [] OTHER                           -> 4000
    IN  IF zscore >= critical_zscore_threshold /\ confidence >= self_thresholds.high_confidence
        THEN "HIGH"
        ELSE IF zscore >= 2000 /\ confidence >= 700 THEN "MEDIUM"
        ELSE "LOW"

\* _determine_severity
_determine_severity(zscore, confidence, metric_name, self_thresholds) ==
    LET high_zscore_threshold ==
            CASE metric_name = "cpu_usage"       -> 2500
              [] metric_name = "memory_usage"    -> 2500
              [] metric_name = "tcp_connections" -> 3000
              [] OTHER                           -> 3000
        critical_zscore_threshold ==
            CASE metric_name = "cpu_usage"       -> 3500
              [] metric_name = "memory_usage"    -> 3500
              [] metric_name = "tcp_connections" -> 4500
              [] OTHER                           -> 4000
    IN  IF zscore >= critical_zscore_threshold /\ confidence >= self_thresholds.high_confidence
        THEN "HIGH"
        ELSE IF zscore >= high_zscore_threshold /\ confidence >= 800 THEN "HIGH"
        ELSE IF zscore >= 2000 /\ confidence >= 700 THEN "MEDIUM"
        ELSE "LOW"

\* the verdict with the percentage test ahead of the z-score test
DetectionMethodPercentageFirst(zscore, recent_avg, baseline_stats, config, metric_name, thresholds) ==
    IF /\ config.percentage_threshold # Null /\ config.percentage_threshold # 0
       /\ baseline_stats.mean > 0
       /\ (recent_avg - baseline_stats.mean) * 100
              > config.percentage_threshold * baseline_stats.mean
    THEN "percentage"
    ELSE IF zscore >= config.zscore_threshold THEN "zscore"
    ELSE IF metric_name = "tcp_connections"
            /\ recent_avg - baseline_stats.mean > thresholds.connection_spike_threshold * 1000
    THEN "absolute"
    ELSE "none"

\* the verdict of lines 415-436: z-score first, then the percentage
\* fallback, then the absolute fallback of tcp_connections (an elif chain)
DetectionMethod(zscore, recent_avg, baseline_stats, config, metric_name, thresholds) ==
    IF zscore >= config.zscore_threshold THEN "zscore"
    ELSE IF config.percentage_threshold # Null /\ config.percentage_threshold # 0
            /\ baseline_stats.mean > 0
    THEN IF (recent_avg - baseline_stats.mean) * 100
              > config.percentage_threshold * baseline_stats.mean
         THEN "percentage" ELSE "none"
    ELSE IF metric_name = "tcp_connections"
    THEN IF recent_avg - baseline_stats.mean > thresholds.connection_spike_threshold * 1000
         THEN "absolute" ELSE "none"
    ELSE "none"

\* the analysis of one metric with a verdict that needs a flagged window
AnalyzeMetricCorroborated(baseline_metrics, recent_metrics, metric_name, thresholds, now) ==
    LET config          == MetricsConfig(thresholds, metric_name)
        baseline_values == MetricValues(baseline_metrics, metric_name)
        recent_values   == MetricValues(recent_metrics, metric_name)
        baseline_stats  == _calculate_statistics(baseline_values)
        recent_stats    == _calculate_statistics(recent_values)
        trend_analysis  == _detect_trend(recent_values, 5)
        recent_avg      == recent_stats.mean
        zscore          == _calculate_zscore(recent_avg, baseline_stats)
        window_anomalies ==
            [i \in 1..Len(thresholds.comparison_windows) |->
                _analyze_metric_window(baseline_metrics, recent_metrics, metric_name,
                                       thresholds.comparison_windows[i], now)]
        detection_method ==
            IF \A i \in 1..Len(window_anomalies) : ~window_anomalies[i].anomaly
            THEN "none"
            ELSE DetectionMethod(zscore, recent_avg, baseline_stats, config, metric_name,
                                 thresholds)
        confidence == _calculate_confidence(zscore, Len(baseline_values),
                                            Len(recent_values), trend_analysis.consistency)
        severity   == _determine_severity(zscore, confidence, metric_name, thresholds)
    IN  [metric_name      |-> metric_name,
         anomaly_detected |-> detection_method # "none",
         detection_method |-> detection_method,
         zscore           |-> zscore,
         confidence       |-> confidence,
         severity         |-> severity,
         baseline_stats   |-> baseline_stats,
         recent_stats     |-> recent_stats,
         trend_analysis   |-> trend_analysis,
         window_anomalies |-> window_anomalies,
         resource_name    |-> config.resource_name,
         baseline_samples |-> Len(baseline_values),
         recent_samples   |-> Len(recent_values)]

\* one pass of the loop body of _analyze_metrics_statistically for a metric
\* whose baseline and recent series are both non-empty
AnalyzeMetric(baseline_metrics, recent_metrics, metric_name, thresholds, now) ==
    LET config          == MetricsConfig(thresholds, metric_name)
        baseline_values == MetricValues(baseline_metrics, metric_name)
        recent_values   == MetricValues(recent_metrics, metric_name)
        baseline_stats  == _calculate_statistics(baseline_values)
        recent_stats    == _calculate_statistics(recent_values)
        trend_analysis  == _detect_trend(recent_values, 5)
        recent_avg      == recent_stats.mean
        zscore          == _calculate_zscore(recent_avg, baseline_stats)
        window_anomalies ==
            [i \in 1..Len(thresholds.comparison_windows) |->
                _analyze_metric_window(baseline_metrics, recent_metrics, metric_name,
                                       thresholds.comparison_windows[i], now)]
        detection_method ==
            DetectionMethod(zscore, recent_avg, baseline_stats, config, metric_name,
                            thresholds)
        confidence == _calculate_confidence(zscore, Len(baseline_values),
                                            Len(recent_values), trend_analysis.consistency)
        severity   == _determine_severity(zscore, confidence, metric_name, thresholds)
    IN  [metric_name      |-> metric_name,
         anomaly_detected |-> detection_method # "none",
         detection_method |-> detection_method,
         zscore           |-> zscore,
         confidence       |-> confidence,
         severity         |-> severity,
         baseline_stats   |-> baseline_stats,
         recent_stats     |-> recent_stats,
         trend_analysis   |-> trend_analysis,
         window_anomalies |-> window_anomalies,
         resource_name    |-> config.resource_name,
         baseline_samples |-> Len(baseline_values),
         recent_samples   |-> Len(recent_values)]

\* a metric is left out of the analyses when float() raises on one of its
\* values (the except of line 464) or when a series is empty (line 393)
MetricSkipped(baseline_metrics, recent_metrics, metric_name) ==
    \/ HasNonNumeric(baseline_metrics, metric_name)
    \/ HasNonNumeric(recent_metrics, metric_name)
    \/ MetricValues(baseline_metrics, metric_name) = << >>
    \/ MetricValues(recent_metrics, metric_name) = << >>

RECURSIVE AnalyzeFrom(_, _, _, _, _)
AnalyzeFrom(k, baseline_metrics, recent_metrics, thresholds, now) ==
    IF k > Len(MetricNames) THEN << >>
    ELSE (IF MetricSkipped(baseline_metrics, recent_metrics, MetricNames[k])
          THEN << >>
          ELSE << AnalyzeMetric(baseline_metrics, recent_metrics, MetricNames[k],
                                thresholds, now) >>)
         \o AnalyzeFrom(k + 1, baseline_metrics, recent_metrics, thresholds, now)

\* _analyze_metrics_statistically: the analyses in the order of metrics_config
_analyze_metrics_statistically(baseline_metrics, recent_metrics, thresholds, now) ==
    AnalyzeFrom(1, baseline_metrics, recent_metrics, thresholds, now)

\* f"{metric_name}_spike"
SpikeType(metric_name) ==
    CASE metric_name = "cpu_usage"       -> "cpu_usage_spike"
      [] metric_name = "memory_usage"    -> "memory_usage_spike"
      [] metric_name = "disk_usage"      -> "disk_usage_spike"
      [] metric_name = "tcp_connections" -> "tcp_connections_spike"

\* _create_metric_anomaly; the description keeps the wording chosen by the
\* detection method and the trend suffix
_create_metric_anomaly(metric_name, analysis, now) ==
    LET baseline_stats == analysis.baseline_stats
        recent_stats   == analysis.recent_stats
        trend_analysis == analysis.trend_analysis
        percentage_change ==
            IF baseline_stats.mean > 0
            THEN ((recent_stats.mean - baseline_stats.mean) * 100) \div baseline_stats.mean
            ELSE 0
        wording ==
            CASE analysis.detection_method = "zscore" ->
                   "anomaly detected: standard deviations above baseline"
              [] analysis.detection_method = "percentage" ->
                   "spike detected: % increase from baseline"
              [] analysis.detection_method = "absolute" ->
                   "spike detected: increase from baseline"
              [] OTHER -> "anomaly detected"
        suffix ==
            CASE trend_analysis.trend = "increasing" -> " (trending upward)"
              [] trend_analysis.trend = "decreasing" -> " (trending downward)"
              [] OTHER -> ""
    IN  [type        |-> SpikeType(metric_name),
         severity    |-> analysis.severity,
         timestamp   |-> now,
         description |-> << metric_name, wording, suffix >>,
         details     |-> [detection_method  |-> analysis.detection_method,
                          zscore            |-> analysis.zscore,
                          baseline_mean     |-> baseline_stats.mean,
                          baseline_std      |-> baseline_stats.std,
                          recent_mean       |-> recent_stats.mean,
                          recent_std        |-> recent_stats.std,
                          percentage_change |-> percentage_change,
                          trend             |-> trend_analysis.trend,
                          trend_slope       |-> trend_analysis.slope5M,
                          trend_consistency |-> trend_analysis.consistency,
                          baseline_samples  |-> analysis.baseline_samples,
                          recent_samples    |-> analysis.recent_samples,
                          window_anomalies  |-> analysis.window_anomalies],
         affected_resource |-> analysis.resource_name,
         confidence  |-> analysis.confidence]

\* the loop of lines 336-340 without the min_confidence test
SurfaceFromUnfiltered(k, metric_analyses, thresholds, now) ==
    LET flagged == SelectSeq(SubSeq(metric_analyses, k, Len(metric_analyses)),
                             LAMBDA analysis : analysis.anomaly_detected)
    IN  [i \in 1..Len(flagged) |->
            _create_metric_anomaly(flagged[i].metric_name, flagged[i], now)]

RECURSIVE SurfaceFrom(_, _, _, _)
\* the loop of lines 336-340: flagged analyses whose anomaly reaches
\* thresholds.min_confidence, in the order of the analyses
SurfaceFrom(k, metric_analyses, thresholds, now) ==
    IF k > Len(metric_analyses) THEN << >>
    ELSE LET analysis == metric_analyses[k]
             anomaly  == _create_metric_anomaly(analysis.metric_name, analysis, now)
         IN  (IF analysis.anomaly_detected /\ anomaly.confidence >= thresholds.min_confidence
              THEN << anomaly >> ELSE << >>)
             \o SurfaceFrom(k + 1, metric_analyses, thresholds, now)

\* Outcome as it would be were the except clause of a sub-detector to re-raise
OutcomeReraised(anomalies, failed, queries) ==
    [anomalies |-> anomalies, failed |-> failed, queries |-> queries, raised |-> failed]

\* Outcome of a sub-detector: the list it returns, whether an exception was
\* caught inside it, the store queries it issued, and whether an exception
\* left it (never: each sub-detector catches Exception around its whole body).
Outcome(anomalies, failed, queries) ==
    [anomalies |-> anomalies, failed |-> failed, queries |-> queries, raised |-> FALSE]

\* the metric_analyses that _detect_metric_spikes computes (lines 331-333), << >>
\* when it does not get that far
MetricAnalyses(metrics, thresholds, start_time, now, fault) ==
    LET baseline_start == start_time - thresholds.baseline_hours * MinutesPerHour
        baseline_metrics == OrderByTimestamp(SelectRows(metrics, baseline_start, start_time))
        recent_metrics   == OrderByTimestamp(SelectRowsFrom(metrics, start_time))
    IN  IF \/ fault # "none"
           \/ Len(baseline_metrics) < thresholds.min_baseline_samples
           \/ Len(recent_metrics) < thresholds.min_recent_samples
        THEN << >>
        ELSE _analyze_metrics_statistically(baseline_metrics, recent_metrics, thresholds, now)

\* _detect_metric_spikes without the row-count test of lines 324-328
_detect_metric_spikes_unguarded(metrics, thresholds, start_time, now, fault) ==
    LET baseline_start == start_time - thresholds.baseline_hours * MinutesPerHour
        baseline_metrics == OrderByTimestamp(SelectRows(metrics, baseline_start, start_time))
        recent_metrics   == OrderByTimestamp(SelectRowsFrom(metrics, start_time))
    IN  IF fault = "baseline" THEN Outcome(<< >>, TRUE, 1)
        ELSE IF fault = "recent" THEN Outcome(<< >>, TRUE, 2)
        ELSE Outcome(SurfaceFrom(1, _analyze_metrics_statistically(
                                        baseline_metrics, recent_metrics, thresholds, now),
                                 thresholds, now),
                     FALSE, 2)

\* _detect_metric_spikes.  fault names the store query that raises
\* ("baseline", "recent") or is "none".
_detect_metric_spikes(metrics, thresholds, start_time, now, fault) ==
    LET baseline_start == start_time - thresholds.baseline_hours * MinutesPerHour
        recent_start   == start_time
        baseline_metrics == OrderByTimestamp(SelectRows(metrics, baseline_start, recent_start))
        recent_metrics   == OrderByTimestamp(SelectRowsFrom(metrics, recent_start))
    IN  IF fault = "baseline" THEN Outcome(<< >>, TRUE, 1)
        ELSE IF fault = "recent" THEN Outcome(<< >>, TRUE, 2)
        ELSE IF Len(baseline_metrics) < thresholds.min_baseline_samples
                \/ Len(recent_metrics) < thresholds.min_recent_samples
        THEN Outcome(<< >>, FALSE, 2)
        ELSE Outcome(SurfaceFrom(1, _analyze_metrics_statistically(
                                        baseline_metrics, recent_metrics, thresholds, now),
                                 thresholds, now),
                     FALSE, 2)

(***************************************************************************)
(* Text helpers for log messages and event actions.  A message is the      *)
(* sequence of its tokens; str.lower and the substring tests are tabulated *)
(* over the vocabulary of the model.                                       *)
(***************************************************************************)
WordToken(text) == [kind |-> "word", text |-> text, octets |-> << >>]

IpToken(octets) == [kind |-> "ip", text |-> "", octets |-> octets]

\* str.lower()
Lower(text) ==
    CASE text = "ERROR"      -> "error"
      [] text = "Exception"  -> "exception"
      [] text = "FAILED"     -> "failed"
      [] text = "Timeout"    -> "timeout"
      [] text = "GET"        -> "get"
      [] text = "OK"         -> "ok"
      [] text = "Restart"    -> "restart"
      [] text = "RESTARTING" -> "restarting"
      [] text = "Start"      -> "start"
      [] OTHER               -> text

\* any(keyword in message_lower for keyword in error_keywords), per token:
\* the lower-cased words of the vocabulary that contain a keyword
ErrorWords ==
    { "error", "errors", "exception", "failed", "fatal", "critical", "500", "404",
      "timeout", "1500ms", "timeouts" }

TokenHasErrorKeyword(token) ==
    IF token.kind = "word" THEN Lower(token.text) \in ErrorWords
    ELSE \E i \in 1..Len(token.octets) : token.octets[i] \in {500, 404}

MessageHasErrorKeyword(message) ==
    \E i \in 1..Len(message) : TokenHasErrorKeyword(message[i])

\* "restart" in action.lower()
RestartWords == { "restart", "restarting", "container_restart" }

RECURSIVE FindIps(_)
\* re.findall(ip_pattern, message): the IPv4 literals of the message in order
FindIps(message) ==
    IF message = << >> THEN << >>
    ELSE (IF Head(message).kind = "ip" THEN << Head(message).octets >> ELSE << >>)
         \o FindIps(Tail(message))

\* _is_private_ip that knows 172.16.x.x only, not the whole of 172.16/12
_is_private_ip_narrow(parts) ==
    IF parts[1] = 10 THEN TRUE
    ELSE IF parts[1] = 172 /\ parts[2] = 16 THEN TRUE
    ELSE IF parts[1] = 192 /\ parts[2] = 168 THEN TRUE
    ELSE IF parts[1] = 127 THEN TRUE
    ELSE FALSE

\* _is_private_ip
_is_private_ip(parts) ==
    IF parts[1] = 10 THEN TRUE
    ELSE IF parts[1] = 172 /\ 16 <= parts[2] /\ parts[2] <= 31 THEN TRUE
    ELSE IF parts[1] = 192 /\ parts[2] = 168 THEN TRUE
    ELSE IF parts[1] = 127 THEN TRUE
    ELSE FALSE

\* f"ip_{ip}"
IpResource(ip) ==
    CASE ip = << 203, 0, 113, 9 >> -> "ip_203.0.113.9"
      [] ip = << 198, 51, 100, 7 >> -> "ip_198.51.100.7"
      [] ip = << 192, 168, 1, 5 >> -> "ip_192.168.1.5"
      [] ip = << 10, 0, 0, 7 >>    -> "ip_10.0.0.7"
      [] ip = << 172, 16, 0, 1 >>  -> "ip_172.16.0.1"
      [] ip = << 127, 0, 0, 1 >>   -> "ip_127.0.0.1"
      [] OTHER                     -> "ip_other"

RECURSIVE MaxOf(_)
MaxOf(s) == IF Len(s) = 1 THEN s[1] ELSE Max(Head(s), MaxOf(Tail(s)))

RECURSIVE MinOf(_)
MinOf(s) == IF Len(s) = 1 THEN s[1] ELSE Min(Head(s), MinOf(Tail(s)))

\* the keys of a list of pairs filled in this order: one per occurrence
DistinctInOrderPerEntry(keys) == keys

\* the keys of a dict filled in this order: first occurrences, in order
DistinctInOrder(keys) ==
    LET first == SelectSeq([i \in 1..Len(keys) |-> i],
                           LAMBDA i : \A j \in 1..(i - 1) : keys[j] # keys[i])
    IN  [k \in 1..Len(first) |-> keys[first[k]]]

(***************************************************************************)
(* IP burst detector                                                       *)
(***************************************************************************)
RECURSIVE IpHits(_)
\* the (ip, timestamp) pairs appended to ip_requests, in order
IpHits(logs) ==
    IF logs = << >> THEN << >>
    ELSE LET log == Head(logs)
             ips == FindIps(log.message)
             kept == SelectSeq(ips, LAMBDA ip : ~_is_private_ip(ip))
         IN  [i \in 1..Len(kept) |-> [ip |-> kept[i], timestamp |-> log.timestamp]]
             \o IpHits(Tail(logs))

RECURSIVE IpLoop(_, _, _, _, _)
\* the loop of lines 642-665 over ip_requests.items(); reading the
\* attribute requests_per_ip_threshold raises when thresholds has none
IpLoop(k, ips, hits, thresholds, anomalies) ==
    IF k > Len(ips) THEN Outcome(anomalies, FALSE, 1)
    ELSE IF ~HasAttr(thresholds, "requests_per_ip_threshold")
    THEN Outcome(anomalies, TRUE, 1)
    ELSE
      LET ip == ips[k]
          mine == SelectSeq(hits, LAMBDA h : h.ip = ip)
          timestamps == [i \in 1..Len(mine) |-> mine[i].timestamp]
          request_count == Len(timestamps)
          time_span == MaxOf(timestamps) - MinOf(timestamps)
          anomaly ==
            [type        |-> "ip_request_spike",
             severity    |-> IF request_count > 500 THEN "HIGH" ELSE "MEDIUM",
             timestamp   |-> MaxOf(timestamps),
             description |-> << "High request volume from IP", IpResource(ip) >>,
             details     |-> [ip_address        |-> ip,
                              total_requests    |-> request_count,
                              requests_per_hour |->
                                  (request_count * MinutesPerHour * 100)
                                      \div Max(time_span, MinutesPerHour),
                              time_span         |-> time_span,
                              first_request     |-> MinOf(timestamps),
                              last_request      |-> MaxOf(timestamps)],
             affected_resource |-> IpResource(ip),
             confidence  |-> 1000]
      IN  IpLoop(k + 1, ips, hits, thresholds,
                 IF request_count > thresholds.requests_per_ip_threshold
                 THEN Append(anomalies, anomaly) ELSE anomalies)

\* _detect_ip_anomalies; fault = "query" when the store query raises
_detect_ip_anomalies(logs_table, thresholds, start_time, fault) ==
    IF fault = "query" THEN Outcome(<< >>, TRUE, 1)
    ELSE LET logs == SelectRowsFrom(logs_table, start_time)
             hits == IpHits(logs)
             ips  == DistinctInOrder([i \in 1..Len(hits) |-> hits[i].ip])
         IN  IpLoop(1, ips, hits, thresholds, << >>)

(***************************************************************************)
(* Error-rate detector                                                     *)
(***************************************************************************)
\* log.container or "unknown"
ContainerOf(log) == IF log.container = NoText THEN "unknown" ELSE log.container

RECURSIVE ErrorRateLoopInclusive(_, _, _, _, _)
\* the loop over container_stats.items() with >= where the code compares the
\* rate to the threshold with >
ErrorRateLoopInclusive(k, containers, logs, thresholds, now) ==
    IF k > Len(containers) THEN << >>
    ELSE
      LET container == containers[k]
          mine   == SelectSeq(logs, LAMBDA l : ContainerOf(l) = container)
          total  == Len(mine)
          errors == Len(SelectSeq(mine, LAMBDA l : MessageHasErrorKeyword(l.message)))
          anomaly ==
            [type        |-> "high_error_rate",
             severity    |-> IF errors * 100 > 25 * total THEN "HIGH" ELSE "MEDIUM",
             timestamp   |-> now,
             description |-> << "High error rate in container", container >>,
             details     |-> [container  |-> container,
                              error_rate |-> (errors * 10000) \div total,
                              total_logs |-> total,
                              error_logs |-> errors],
             affected_resource |-> container,
             confidence  |-> 1000]
      IN  (IF total >= 10 /\ errors * 100 >= thresholds.error_rate_threshold * total
           THEN << anomaly >> ELSE << >>)
          \o ErrorRateLoopInclusive(k + 1, containers, logs, thresholds, now)

RECURSIVE ErrorRateLoop(_, _, _, _, _)
\* the loop of lines 707-725 over container_stats.items()
ErrorRateLoop(k, containers, logs, thresholds, now) ==
    IF k > Len(containers) THEN << >>
    ELSE
      LET container == containers[k]
          mine   == SelectSeq(logs, LAMBDA l : ContainerOf(l) = container)
          total  == Len(mine)
          errors == Len(SelectSeq(mine, LAMBDA l : MessageHasErrorKeyword(l.message)))
          anomaly ==
            [type        |-> "high_error_rate",
             severity    |-> IF errors * 100 > 25 * total THEN "HIGH" ELSE "MEDIUM",
             timestamp   |-> now,
             description |-> << "High error rate in container", container >>,
             details     |-> [container  |-> container,
                              error_rate |-> (errors * 10000) \div total,
                              total_logs |-> total,
                              error_logs |-> errors],
             affected_resource |-> container,
             confidence  |-> 1000]
      IN  (IF total >= 10 /\ errors * 100 > thresholds.error_rate_threshold * total
           THEN << anomaly >> ELSE << >>)
          \o ErrorRateLoop(k + 1, containers, logs, thresholds, now)

\* _detect_error_rate_anomalies
_detect_error_rate_anomalies(logs_table, thresholds, start_time, now, fault) ==
    IF fault = "query" THEN Outcome(<< >>, TRUE, 1)
    ELSE LET logs == SelectRowsFrom(logs_table, start_time)
             containers == DistinctInOrder([i \in 1..Len(logs) |-> ContainerOf(logs[i])])
         IN  Outcome(ErrorRateLoop(1, containers, logs, thresholds, now), FALSE, 1)

(***************************************************************************)
(* Event / restart-loop detector                                           *)
(***************************************************************************)
\* f"{event.type}:{event.action}" if event.type and event.action else "unknown"
EventType(event) ==
    IF event.type # NoText /\ event.action # NoText
    THEN << event.type, event.action >> ELSE << "unknown", "" >>

RECURSIVE MostCommon(_, _, _)
\* Counter.most_common(n): highest count first, ties in insertion order
MostCommon(n, keys, all) ==
    IF n = 0 \/ keys = << >> THEN << >>
    ELSE LET count(key) == Len(SelectSeq(all, LAMBDA x : x = key))
             best == CHOOSE i \in 1..Len(keys) :
                        /\ \A j \in 1..Len(keys) : count(keys[j]) <= count(keys[i])
                        /\ \A j \in 1..(i - 1) : count(keys[j]) < count(keys[i])
         IN  << << keys[best], count(keys[best]) >> >>
             \o MostCommon(n - 1, SelectSeq(keys, LAMBDA x : x # keys[best]), all)

RECURSIVE RestartLoop(_, _, _, _)
\* the loop of lines 767-782 over container_events.items(); .lower() on an
\* action that is not a string raises and ends the detector with the
\* anomalies appended so far
RestartLoop(k, containers, events, anomalies) ==
    IF k > Len(containers) THEN Outcome(anomalies, FALSE, 1)
    ELSE
      LET container == containers[k]
          container_event_list == SelectSeq(events, LAMBDA e : e.container = container)
          restart_events ==
              SelectSeq(container_event_list,
                        LAMBDA e : e.action # NoText /\ Lower(e.action) \in RestartWords)
          timestamps == [i \in 1..Len(restart_events) |-> restart_events[i].timestamp]
          anomaly ==
            [type        |-> "container_restart_loop",
             severity    |-> "HIGH",
             timestamp   |-> MaxOf(timestamps),
             description |-> << "Container restarted", container >>,
             details     |-> [container     |-> container,
                              restart_count |-> Len(restart_events),
                              time_span     |-> MaxOf(timestamps) - MinOf(timestamps)],
             affected_resource |-> container,
             confidence  |-> 1000]
      IN  IF \E i \in 1..Len(container_event_list) :
                 container_event_list[i].action = NonText
          THEN Outcome(anomalies, TRUE, 1)
          ELSE RestartLoop(k + 1, containers, events,
                           IF Len(restart_events) > 5
                           THEN Append(anomalies, anomaly) ELSE anomalies)

\* _detect_event_anomalies
_detect_event_anomalies(events_table, thresholds, start_time, now, fault) ==
    IF fault = "query" THEN Outcome(<< >>, TRUE, 1)
    ELSE
      LET events == SelectRowsFrom(events_table, start_time)
          with_container == SelectSeq(events, LAMBDA e : e.container # NoText)
          containers ==
              DistinctInOrder([i \in 1..Len(with_container) |-> with_container[i].container])
          event_types  == [i \in 1..Len(events) |-> EventType(events[i])]
          total_events == Len(events)
          restarts     == RestartLoop(1, containers, events, << >>)
          volume ==
            [type        |-> "high_event_volume",
             severity    |-> "MEDIUM",
             timestamp   |-> now,
             description |-> << "High Docker event volume", "" >>,
             details     |-> [total_events    |-> total_events,
                              top_event_types |->
                                  MostCommon(5, DistinctInOrder(event_types), event_types)],
             affected_resource |-> "docker_events",
             confidence  |-> 1000]
      IN  IF events = << >> THEN Outcome(<< >>, FALSE, 1)
          ELSE IF restarts.failed THEN restarts
          ELSE Outcome(restarts.anomalies
                         \o (IF total_events > 100 THEN << volume >> ELSE << >>),
                       FALSE, 1)

(***************************************************************************)
(* Orchestrator helpers                                                    *)
(***************************************************************************)
\* {"HIGH": 3, "MEDIUM": 2, "LOW": 1}[x.severity]
SeverityRank(severity) ==
    CASE severity = "HIGH" -> 3 [] severity = "MEDIUM" -> 2 [] severity = "LOW" -> 1

\* a sort key that leaves the severity rank out
KeyLeqTimestampOnly(a, b) == a.timestamp <= b.timestamp

\* the sort key (rank, timestamp) of a precedes-or-equals that of b
KeyLeq(a, b) ==
    \/ SeverityRank(a.severity) < SeverityRank(b.severity)
    \/ /\ SeverityRank(a.severity) = SeverityRank(b.severity)
       /\ a.timestamp <= b.timestamp

RECURSIVE InsertDescending(_, _)
\* x goes behind every element whose key is at least its own (stable)
InsertDescending(sorted, x) ==
    IF sorted = << >> THEN << x >>
    ELSE IF KeyLeq(x, sorted[Len(sorted)])
         THEN Append(sorted, x)
         ELSE Append(InsertDescending(SubSeq(sorted, 1, Len(sorted) - 1), x),
                     sorted[Len(sorted)])

RECURSIVE SortAnomalies(_)
\* anomalies.sort(key = (rank, timestamp), reverse = True)
SortAnomalies(anomalies) ==
    IF anomalies = << >> THEN << >>
    ELSE InsertDescending(SortAnomalies(SubSeq(anomalies, 1, Len(anomalies) - 1)),
                          anomalies[Len(anomalies)])

Detectors == << "metric_spikes", "ip", "error_rate", "events" >>

\* the operations of AnomalyDetectionService and the sub-detector each starts with
Operations ==
    { "detect_all_anomalies", "detect_metric_spikes", "detect_ip_anomalies",
      "detect_error_rate_anomalies", "detect_event_anomalies" }

\* anomalies[:10]
FirstTen(returned) == SubSeq(returned, 1, Min(10, Len(returned)))

\* get_anomaly_summary that reports the last ten anomalies of the list
get_anomaly_summary_last_ten(returned, now) ==
    [total_anomalies    |-> Len(returned),
     by_type            |->
         [t \in { returned[j].type : j \in 1..Len(returned) } |->
             Cardinality({ j \in 1..Len(returned) : returned[j].type = t })],
     by_severity        |->
         [v \in { returned[j].severity : j \in 1..Len(returned) } |->
             Cardinality({ j \in 1..Len(returned) : returned[j].severity = v })],
     affected_resources |->
         { returned[j].affected_resource : j \in 1..Len(returned) } \ { NoText },
     recent_anomalies   |->
         [j \in 1..Len(FirstTen(returned)) |->
             LET a == returned[Len(returned) - Len(FirstTen(returned)) + j]
             IN  [type              |-> a.type,
                  severity          |-> a.severity,
                  timestamp         |-> a.timestamp,
                  description       |-> a.description,
                  affected_resource |-> a.affected_resource]],
     generated_at       |-> now]

\* get_anomaly_summary, lines 838-867, on the list detect_all_anomalies
\* returned; by_type and by_severity are dictionaries keyed by the values
\* met, affected_resources is list(set(...)), whose order is not fixed
get_anomaly_summary(returned, now) ==
    [total_anomalies    |-> Len(returned),
     by_type            |->
         [t \in { returned[j].type : j \in 1..Len(returned) } |->
             Cardinality({ j \in 1..Len(returned) : returned[j].type = t })],
     by_severity        |->
         [v \in { returned[j].severity : j \in 1..Len(returned) } |->
             Cardinality({ j \in 1..Len(returned) : returned[j].severity = v })],
     affected_resources |->
         { returned[j].affected_resource : j \in 1..Len(returned) } \ { NoText },
     recent_anomalies   |->
         [j \in 1..Len(FirstTen(returned)) |->
             [type              |-> returned[j].type,
              severity          |-> returned[j].severity,
              timestamp         |-> returned[j].timestamp,
              description       |-> returned[j].description,
              affected_resource |-> returned[j].affected_resource]],
     generated_at       |-> now]

FirstDetector(operation) ==
    CASE operation = "detect_all_anomalies"        -> "metric_spikes"
      [] operation = "detect_metric_spikes"        -> "metric_spikes"
      [] operation = "detect_ip_anomalies"         -> "ip"
      [] operation = "detect_error_rate_anomalies" -> "error_rate"
      [] operation = "detect_event_anomalies"      -> "events"
      [] operation = "get_anomaly_summary"         -> "metric_spikes"

\* NextStep of an orchestrator that runs the event detector again after it
NextStepRepeating(detector) ==
    CASE detector = "metric_spikes" -> "ip"
      [] detector = "ip"            -> "error_rate"
      [] detector = "error_rate"    -> "events"
      [] detector = "events"        -> "events"

\* where detect_all_anomalies goes after a sub-detector has returned
NextStep(detector) ==
    CASE detector = "metric_spikes" -> "ip"
      [] detector = "ip"            -> "error_rate"
      [] detector = "error_rate"    -> "events"
      [] detector = "events"        -> "sort"

(***************************************************************************)
(* Bounds of the model and the store contents explored                     *)
(***************************************************************************)
\* the clock reading (minutes) of the calls
Now0 == 6000

\* lookback_hours ranges over 1..MaxLookback
MaxLookback == 1

\* store queries that raise within one call
MaxFaults == 1

\* rows of the long baseline, one every BaselineStep minutes
FullBaseline == 51

BaselineStep == 20

RecentStep == 5

\* a column of nb baseline values
BaselineValue(kind, n, i) ==
    CASE kind = "wave5"   -> IF i = n /\ n % 2 = 1 THEN 40 ELSE IF i % 2 = 1 THEN 35 ELSE 45
      [] kind = "wave20"  -> IF i = n /\ n % 2 = 1 THEN 40 ELSE IF i % 2 = 1 THEN 20 ELSE 60
      [] kind = "flat40"  -> 40
      [] kind = "sparse"  -> IF i = 1 THEN 35 ELSE IF i = 2 THEN 45 ELSE Null
      [] kind = "null"    -> Null
      [] kind = "holes"   -> IF i % 3 = 0 THEN Null ELSE IF i % 2 = 1 THEN 35 ELSE 45
      [] kind = "text"    -> IF i = 2 THEN NonNumeric ELSE IF i % 2 = 1 THEN 35 ELSE 45
      [] kind = "tcpwide" -> IF i = n /\ n % 2 = 1 THEN 400 ELSE IF i % 2 = 1 THEN 100 ELSE 700
      [] kind = "tcpcalm" -> IF i = n /\ n % 2 = 1 THEN 150 ELSE IF i % 2 = 1 THEN 140 ELSE 160

\* a column of nr recent values
RecentValue(kind, n, i) ==
    CASE kind = "ramp70"  -> 70 + (2 * i - (n + 1))
      [] kind = "flat70"  -> 70
      [] kind = "zig70"   -> IF i % 2 = 1 THEN 60 ELSE 80
      [] kind = "bend"    -> IF i <= 2 THEN 62 + 9 * i ELSE 70 + (2 * i - (n + 1))
      [] kind = "ramp42"  -> 42 + (2 * i - (n + 1))
      [] kind = "ramp52"  -> 52 + (2 * i - (n + 1))
      [] kind = "ramp10"  -> 10 + (2 * i - (n + 1))
      [] kind = "null"    -> Null
      [] kind = "holes"   -> IF i % 4 = 0 THEN Null ELSE 70 + (2 * i - (n + 1))
      [] kind = "tcp1000" -> 1000 + 2 * (2 * i - (n + 1))
      [] kind = "tcp900"  -> 900 + 2 * (2 * i - (n + 1))
      [] kind = "tcp155"  -> 155 + (2 * i - (n + 1))

\* nb baseline rows ending BaselineStep minutes before the recent window of a
\* one-hour lookback, then nr recent rows ending RecentStep minutes before Now0
MetricTable(sc) ==
    [i \in 1..(sc.nb + sc.nr) |->
        IF i <= sc.nb
        THEN [timestamp       |-> Now0 - MinutesPerHour - (sc.nb - i + 1) * BaselineStep,
              cpu_usage       |-> BaselineValue(sc.cpu[1], sc.nb, i),
              memory_usage    |-> BaselineValue(sc.memory[1], sc.nb, i),
              disk_usage      |-> BaselineValue(sc.disk[1], sc.nb, i),
              tcp_connections |-> BaselineValue(sc.tcp[1], sc.nb, i)]
        ELSE [timestamp       |-> Now0 - (sc.nr - (i - sc.nb) + 1) * RecentStep,
              cpu_usage       |-> RecentValue(sc.cpu[2], sc.nr, i - sc.nb),
              memory_usage    |-> RecentValue(sc.memory[2], sc.nr, i - sc.nb),
              disk_usage      |-> RecentValue(sc.disk[2], sc.nr, i - sc.nb),
              tcp_connections |-> RecentValue(sc.tcp[2], sc.nr, i - sc.nb)]]

\* << baseline rows, recent rows >>: below, at and above the minimum sample
\* counts, and enough of both for full sample-size confidence
RowCounts ==
    { << 9, 10 >>, << 11, 4 >>, << 11, 5 >>, << 11, 7 >>, << 11, 10 >>,
      << FullBaseline, 5 >>, << FullBaseline, 7 >>, << FullBaseline, 10 >> }

CpuColumns ==
    { << "wave5", "ramp70" >>, << "wave5", "flat70" >>, << "wave5", "zig70" >>,
      << "wave5", "bend" >>, << "wave5", "ramp42" >>, << "wave5", "ramp52" >>,
      << "wave5", "ramp10" >>, << "wave20", "ramp70" >>, << "flat40", "ramp70" >>,
      << "sparse", "ramp70" >>, << "holes", "holes" >>, << "null", "ramp70" >>,
      << "text", "ramp70" >> }

TcpColumns ==
    { << "tcpcalm", "tcp155" >>, << "tcpwide", "tcp1000" >>, << "tcpcalm", "tcp900" >> }

ColumnChoices ==
    { << c, << "tcpcalm", "tcp155" >> >> : c \in CpuColumns }
        \cup { << << "wave5", "ramp42" >>, t >> : t \in TcpColumns }

MetricScenarios ==
    { [nb |-> rc[1], nr |-> rc[2], cpu |-> ct[1], memory |-> << "wave5", "ramp42" >>,
       disk |-> << "wave5", "ramp42" >>, tcp |-> ct[2]] :
          rc \in RowCounts, ct \in ColumnChoices }

\* every metric spikes at once: several metric anomalies in one result
BusyScenario ==
    [nb |-> FullBaseline, nr |-> 10, cpu |-> << "wave5", "ramp70" >>,
     memory |-> << "wave5", "ramp52" >>, disk |-> << "wave5", "ramp70" >>,
     tcp |-> << "tcpcalm", "tcp900" >>]

\* one metric per verdict: percentage, z-score, none, absolute
MixedScenario ==
    [nb |-> FullBaseline, nr |-> 10, cpu |-> << "wave20", "ramp70" >>,
     memory |-> << "wave5", "ramp52" >>, disk |-> << "wave5", "ramp42" >>,
     tcp |-> << "tcpwide", "tcp1000" >>]

QuietScenario ==
    [nb |-> 11, nr |-> 5, cpu |-> << "wave5", "ramp42" >>,
     memory |-> << "wave5", "ramp42" >>, disk |-> << "wave5", "ramp42" >>,
     tcp |-> << "tcpcalm", "tcp155" >>]

\* n log rows of one container, one a minute from minute first: the first
\* nerr carry the word given, every row names the address ip (if any)
LogRows(container, n, nerr, word, ip, first) ==
    [i \in 1..n |->
        [container |-> container,
         message   |-> (IF i <= nerr THEN << WordToken(word) >> ELSE << WordToken("GET") >>)
                       \o (IF ip = << >> THEN << >> ELSE << IpToken(ip) >>),
         timestamp |-> first + i - 1]]

LogTables ==
    { << >>,
      LogRows("web-1", 12, 4, "ERROR", << 203, 0, 113, 9 >>, Now0 - 30),
      LogRows("web-1", 12, 2, "Timeout", << 192, 168, 1, 5 >>, Now0 - 30)
          \o LogRows("api-1", 10, 0, "OK", << >>, Now0 - 20),
      LogRows("web-1", 9, 9, "fatal", << 10, 0, 0, 7 >>, Now0 - 30)
          \o LogRows("", 10, 1, "404", << >>, Now0 - 50) }

\* n event rows of one container with one action, three a minute from first
EventRows(container, n, type, action, first) ==
    [i \in 1..n |->
        [type |-> type, action |-> action, container |-> container,
         timestamp |-> first + (i - 1) \div 3]]

EventTables ==
    { << >>,
      EventRows("db-1", 6, "container", "restart", Now0 - 40),
      EventRows("db-1", 5, "container", "Restart", Now0 - 40)
          \o EventRows("db-2", 7, "container", "start", Now0 - 30),
      EventRows("db-1", 6, "container", "restart", Now0 - 40)
          \o EventRows("db-2", 1, "container", NonText, Now0 - 30)
          \o EventRows("db-3", 7, "container", "RESTARTING", Now0 - 20),
      EventRows("db-2", 1, "container", NonText, Now0 - 45)
          \o EventRows("db-1", 6, "container", "restart", Now0 - 40),
      EventRows("db-1", 6, "container", "restart", Now0 - 40)
          \o EventRows("db-3", 7, "container", "restart", Now0 - 50)
          \o EventRows("", 90, "image", "pull", Now0 - 55) }

\* the thresholds an AnomalyDetectionService is constructed with
LowConfidence == [AnomalyThresholds EXCEPT !.min_confidence = 100]

Retuned ==
      [AnomalyThresholds EXCEPT !.min_confidence = 300,
                                !.container_restart_threshold = 2,
                                !.event_volume_threshold = 3,
                                !.ip_request_threshold = 2,
                                !.comparison_windows = << 1 >>]

\* a baseline shorter than the history the store keeps, and comparison
\* windows of which one is shorter than the lookback
ShortBaseline ==
    [AnomalyThresholds EXCEPT !.baseline_hours = 17, !.comparison_windows = << 1, 0 >>]

\* a sample whose agent's clock runs ahead of the service's
LateRow ==
    [timestamp |-> Now0 + 2, cpu_usage |-> 80, memory_usage |-> 53,
     disk_usage |-> 80, tcp_connections |-> 900]

\* the service configurations and store contents explored
Settings ==
    { [thresholds |-> ShortBaseline,
       metrics |-> MetricTable(BusyScenario) \o << LateRow >>,
       logs |-> << >>, events |-> << >>] }
    \cup
    { [thresholds |-> th, metrics |-> MetricTable(sc), logs |-> << >>, events |-> << >>] :
          th \in { AnomalyThresholds, LowConfidence },
          sc \in MetricScenarios \cup { MixedScenario } }
    \cup
    { [thresholds |-> th, metrics |-> MetricTable(sc), logs |-> l, events |-> e] :
          th \in { AnomalyThresholds, LowConfidence, Retuned },
          sc \in { BusyScenario, QuietScenario }, l \in LogTables, e \in EventTables }

(***************************************************************************)
(* State                                                                   *)
(***************************************************************************)
VARIABLES
    thresholds,     \* self.thresholds of the service instance
    metrics,        \* table metrics
    logs,           \* table container_logs
    events,         \* table docker_events
    clock,          \* datetime.now(timezone.utc), minutes
    pc,             \* "idle", the sub-detector about to run, "sort" or "done"
    operation,      \* the public method being executed
    lookback_hours, \* its argument
    start_time,     \* now - lookback_hours
    anomalies,      \* the local list of detect_all_anomalies
    found,          \* what each sub-detector returned in this call
    failed,         \* the sub-detectors that caught an exception in this call
    started,        \* the sub-detectors started in this call, in order
    queries,        \* store queries issued in this call
    faults,         \* store queries that raised in this call
    metric_analyses, \* the local metric_analyses of _detect_metric_spikes in this call
    result,         \* the list handed to the caller
    outcome,        \* "pending", "returned" or "raised"
    summary,        \* the dictionary get_anomaly_summary returns, << >> before
    previous        \* per lookback, the list the last detect_all_anomalies call
                    \* without a store fault returned (history), << >> before

vars == << thresholds, metrics, logs, events, clock, pc, operation, lookback_hours,
           start_time, anomalies, found, failed, started, queries, faults,
           metric_analyses, result, outcome, summary, previous >>

store == << thresholds, metrics, logs, events, clock >>

Init ==
    /\ \E st \in Settings :
          /\ thresholds = st.thresholds
          /\ metrics = st.metrics
          /\ logs = st.logs
          /\ events = st.events
    /\ clock = Now0
    /\ pc = "idle"
    /\ operation = "none"
    /\ lookback_hours = 0
    /\ start_time = 0
    /\ anomalies = << >>
    /\ found = [d \in {"metric_spikes", "ip", "error_rate", "events"} |-> << >>]
    /\ failed = { }
    /\ started = << >>
    /\ queries = 0
    /\ faults = 0
    /\ metric_analyses = << >>
    /\ result = << >>
    /\ outcome = "pending"
    /\ summary = << >>
    /\ previous = [h \in 1..MaxLookback |-> << >>]

\* a public method is entered: lines 189-190, 235, 253, 271, 289
Call(op, hours) ==
    /\ pc \in { "idle", "done" }
    /\ pc' = FirstDetector(op)
    /\ operation' = op
    /\ lookback_hours' = hours
    /\ start_time' = clock - hours * MinutesPerHour
    /\ anomalies' = << >>
    /\ found' = [d \in DOMAIN found |-> << >>]
    /\ failed' = { }
    /\ started' = << >>
    /\ queries' = 0
    /\ faults' = 0
    /\ metric_analyses' = << >>
    /\ result' = << >>
    /\ outcome' = "pending"
    /\ summary' = << >>
    /\ UNCHANGED << store, previous >>

\* CallAgain on a service that keeps its list of anomalies as an attribute of
\* the instance and does not empty it
CallAgainKeepingList(op, hours) ==
    /\ pc = "done"
    /\ operation = "detect_all_anomalies"
    /\ faults = 0
    /\ outcome = "returned"
    /\ pc' = FirstDetector(op)
    /\ operation' = op
    /\ lookback_hours' = hours
    /\ start_time' = clock - hours * MinutesPerHour
    /\ found' = [d \in DOMAIN found |-> << >>]
    /\ failed' = { }
    /\ started' = << >>
    /\ queries' = 0
    /\ faults' = 0
    /\ metric_analyses' = << >>
    /\ result' = << >>
    /\ outcome' = "pending"
    /\ summary' = << >>
    /\ previous' = [previous EXCEPT ![lookback_hours] = << result >>]
    /\ anomalies' = anomalies
    /\ UNCHANGED store

\* CallAgain on a service whose call leaves a raised confidence floor behind
\* in the shared thresholds object
CallAgainRetuning(op, hours) ==
    /\ pc = "done"
    /\ operation = "detect_all_anomalies"
    /\ faults = 0
    /\ outcome = "returned"
    /\ pc' = FirstDetector(op)
    /\ operation' = op
    /\ lookback_hours' = hours
    /\ start_time' = clock - hours * MinutesPerHour
    /\ found' = [d \in DOMAIN found |-> << >>]
    /\ failed' = { }
    /\ started' = << >>
    /\ queries' = 0
    /\ faults' = 0
    /\ metric_analyses' = << >>
    /\ result' = << >>
    /\ outcome' = "pending"
    /\ summary' = << >>
    /\ previous' = [previous EXCEPT ![lookback_hours] = << result >>]
    /\ anomalies' = << >>
    /\ thresholds' = [thresholds EXCEPT !.min_confidence = 990]
    /\ UNCHANGED << metrics, logs, events, clock >>

\* a public method is entered after a detect_all_anomalies call in which no
\* store query raised: the list that call returned is kept for comparison
CallAgain(op, hours) ==
    /\ pc = "done"
    /\ operation = "detect_all_anomalies"
    /\ faults = 0
    /\ outcome = "returned"
    /\ pc' = FirstDetector(op)
    /\ operation' = op
    /\ lookback_hours' = hours
    /\ start_time' = clock - hours * MinutesPerHour
    /\ anomalies' = << >>
    /\ found' = [d \in DOMAIN found |-> << >>]
    /\ failed' = { }
    /\ started' = << >>
    /\ queries' = 0
    /\ faults' = 0
    /\ metric_analyses' = << >>
    /\ result' = << >>
    /\ outcome' = "pending"
    /\ summary' = << >>
    /\ previous' = [previous EXCEPT ![lookback_hours] = << result >>]
    /\ UNCHANGED store

\* what follows the return of sub-detector d with outcome out: the public
\* single-detector methods return its list; detect_all_anomalies extends
\* its list and goes on, or logs and re-raises what escaped (lines 216-218)
Continue(d, out) ==
    /\ found' = [found EXCEPT ![d] = out.anomalies]
    /\ failed' = IF out.failed THEN failed \cup { d } ELSE failed
    /\ started' = Append(started, d)
    /\ queries' = queries + out.queries
    /\ IF out.raised
       THEN /\ pc' = "done"
            /\ outcome' = "raised"
            /\ UNCHANGED << anomalies, result >>
       ELSE IF operation \in { "detect_all_anomalies", "get_anomaly_summary" }
       THEN /\ pc' = NextStep(d)
            /\ anomalies' = anomalies \o out.anomalies
            /\ UNCHANGED << result, outcome >>
       ELSE /\ pc' = "done"
            /\ result' = out.anomalies
            /\ outcome' = "returned"
            /\ UNCHANGED anomalies
    /\ UNCHANGED << store, operation, lookback_hours, start_time, summary, previous >>

\* the store queries that may raise now
Faults(kinds) == IF faults < MaxFaults THEN kinds \cup { "none" } ELSE { "none" }

CountFault(fault) == faults' = IF fault = "none" THEN faults ELSE faults + 1

DetectMetricSpikes ==
    /\ pc = "metric_spikes"
    /\ \E fault \in Faults({ "baseline", "recent" }) :
          /\ CountFault(fault)
          /\ metric_analyses' = MetricAnalyses(metrics, thresholds, start_time, clock, fault)
          /\ Continue("metric_spikes",
                      _detect_metric_spikes(metrics, thresholds, start_time, clock, fault))

DetectIpAnomalies ==
    /\ pc = "ip"
    /\ \E fault \in Faults({ "query" }) :
          /\ CountFault(fault)
          /\ Continue("ip", _detect_ip_anomalies(logs, thresholds, start_time, fault))
    /\ UNCHANGED metric_analyses

DetectErrorRateAnomalies ==
    /\ pc = "error_rate"
    /\ \E fault \in Faults({ "query" }) :
          /\ CountFault(fault)
          /\ Continue("error_rate",
                      _detect_error_rate_anomalies(logs, thresholds, start_time, clock, fault))
    /\ UNCHANGED metric_analyses

DetectEventAnomalies ==
    /\ pc = "events"
    /\ \E fault \in Faults({ "query" }) :
          /\ CountFault(fault)
          /\ Continue("events",
                      _detect_event_anomalies(events, thresholds, start_time, clock, fault))
    /\ UNCHANGED metric_analyses

\* lines 208-214 of detect_all_anomalies
SortAndReturn ==
    /\ pc = "sort"
    /\ pc' = "done"
    /\ result' = SortAnomalies(anomalies)
    /\ outcome' = "returned"
    /\ summary' = IF operation = "get_anomaly_summary"
                  THEN get_anomaly_summary(SortAnomalies(anomalies), clock)
                  ELSE << >>
    /\ UNCHANGED << store, operation, lookback_hours, start_time, anomalies, found,
                    failed, started, queries, faults, metric_analyses, previous >>

Next ==
    \/ \E op \in Operations, hours \in 1..MaxLookback : Call(op, hours)
    \/ DetectMetricSpikes
    \/ DetectIpAnomalies
    \/ DetectErrorRateAnomalies
    \/ DetectEventAnomalies
    \/ SortAndReturn

Spec == Init /\ [][Next]_vars

(***************************************************************************)
(* Sessions: calls that follow one another on the shared instance          *)
(* anomaly_detector (line 874), get_anomaly_summary among them             *)
(***************************************************************************)
\* three containers with error rates of 50, 30 and 20 per cent
CrowdedLogs ==
    LogRows("web-1", 10, 5, "ERROR", << >>, Now0 - 30)
        \o LogRows("api-1", 10, 3, "FAILED", << >>, Now0 - 30)
        \o LogRows("db-1", 10, 2, "Timeout", << >>, Now0 - 30)

\* four containers in a restart loop
CrowdedEvents ==
    EventRows("db-1", 6, "container", "restart", Now0 - 40)
        \o EventRows("db-2", 6, "container", "Restart", Now0 - 30)
        \o EventRows("db-3", 7, "container", "RESTARTING", Now0 - 20)
        \o EventRows("web-1", 6, "container", "restart", Now0 - 10)

\* a store in which one call finds more than ten anomalies, and the stores
\* of the companion detectors
SessionSettings ==
    { [thresholds |-> LowConfidence, metrics |-> MetricTable(BusyScenario),
       logs |-> CrowdedLogs, events |-> CrowdedEvents] }
    \cup
    { [thresholds |-> th, metrics |-> MetricTable(sc), logs |-> l, events |-> e] :
          th \in { AnomalyThresholds, Retuned },
          sc \in { BusyScenario, QuietScenario }, l \in LogTables, e \in EventTables }

SessionOperations == Operations \cup { "get_anomaly_summary" }

SessionInit ==
    /\ \E st \in SessionSettings :
          /\ thresholds = st.thresholds
          /\ metrics = st.metrics
          /\ logs = st.logs
          /\ events = st.events
    /\ clock = Now0
    /\ pc = "idle"
    /\ operation = "none"
    /\ lookback_hours = 0
    /\ start_time = 0
    /\ anomalies = << >>
    /\ found = [d \in {"metric_spikes", "ip", "error_rate", "events"} |-> << >>]
    /\ failed = { }
    /\ started = << >>
    /\ queries = 0
    /\ faults = 0
    /\ metric_analyses = << >>
    /\ result = << >>
    /\ outcome = "pending"
    /\ summary = << >>
    /\ previous = [h \in 1..MaxLookback |-> << >>]

\* a call that follows no detect_all_anomalies call worth keeping
FirstCall(op, hours) ==
    /\ ~(operation = "detect_all_anomalies" /\ faults = 0 /\ outcome = "returned")
    /\ Call(op, hours)

SessionNext ==
    \/ \E op \in SessionOperations, hours \in 1..MaxLookback : FirstCall(op, hours)
    \/ \E op \in SessionOperations, hours \in 1..MaxLookback : CallAgain(op, hours)
    \/ DetectMetricSpikes
    \/ DetectIpAnomalies
    \/ DetectErrorRateAnomalies
    \/ DetectEventAnomalies
    \/ SortAndReturn

SessionSpec == SessionInit /\ [][SessionNext]_vars

\* the stores of the sessions whose calls are followed to their end
LiveSettings ==
    { st \in SessionSettings :
          st.thresholds \in { AnomalyThresholds, LowConfidence }
              /\ st.metrics = MetricTable(BusyScenario) }

LiveInit == SessionInit /\ \E st \in LiveSettings : store = << st.thresholds, st.metrics, st.logs, st.events, Now0 >>

\* a step of the call in progress: the coroutine is resumed when the store
\* query it awaits returns or raises, and runs on to its next await
Resume ==
    \/ DetectMetricSpikes
    \/ DetectIpAnomalies
    \/ DetectErrorRateAnomalies
    \/ DetectEventAnomalies
    \/ SortAndReturn

\* Resume seen from the position of the call alone: a call is the only thing
\* that moves the position off a sub-detector or off the sort, and Resume is
\* enabled exactly there
ResumeStep ==
    /\ pc \in { "metric_spikes", "ip", "error_rate", "events", "sort" }
    /\ pc' \in { "ip", "error_rate", "events", "sort", "done" }

\* every step off a running position is a step of Resume
ResumeStepIsResume == [][(pc \in { "metric_spikes", "ip", "error_rate", "events", "sort" } /\ pc' # pc) => Resume]_vars

LiveSpec == LiveInit /\ [][SessionNext]_vars /\ WF_pc(ResumeStep)

(***************************************************************************)
(* What a call has to work with, read back from the state                  *)
(***************************************************************************)
BaselineMetrics ==
    OrderByTimestamp(SelectRows(metrics,
                                start_time - thresholds.baseline_hours * MinutesPerHour,
                                start_time))

RecentMetrics == OrderByTimestamp(SelectRowsFrom(metrics, start_time))

\* the per-metric analyses of the rows in the two windows, whether or not
\* the call got as far as computing them
Analyses ==
    _analyze_metrics_statistically(BaselineMetrics, RecentMetrics, thresholds, clock)

EnoughRows ==
    /\ Len(SelectRows(metrics, start_time - thresholds.baseline_hours * MinutesPerHour,
                      start_time)) >= thresholds.min_baseline_samples
    /\ Len(SelectRowsFrom(metrics, start_time)) >= thresholds.min_recent_samples

Finished(op) == pc = "done" /\ operation = op

\* the metric sub-detector has run to its end without a store fault
MetricsDone ==
    /\ pc = "done"
    /\ operation \in { "detect_all_anomalies", "detect_metric_spikes" }
    /\ "metric_spikes" \notin failed

\* what a sub-detector returns when no store query raises
FaultFree(d) ==
    CASE d = "metric_spikes" ->
           _detect_metric_spikes(metrics, thresholds, start_time, clock, "none")
      [] d = "ip" -> _detect_ip_anomalies(logs, thresholds, start_time, "none")
      [] d = "error_rate" ->
           _detect_error_rate_anomalies(logs, thresholds, start_time, clock, "none")
      [] d = "events" ->
           _detect_event_anomalies(events, thresholds, start_time, clock, "none")

TypesOf(d) ==
    CASE d = "metric_spikes" ->
           { "cpu_usage_spike", "memory_usage_spike", "disk_usage_spike",
             "tcp_connections_spike" }
      [] d = "ip" -> { "ip_request_spike" }
      [] d = "error_rate" -> { "high_error_rate" }
      [] d = "events" -> { "container_restart_loop", "high_event_volume" }

Count(seq, x) == Len(SelectSeq(seq, LAMBDA y : y = x))

Concatenated ==
    found["metric_spikes"] \o found["ip"] \o found["error_rate"] \o found["events"]

(***************************************************************************)
(* C1  A sub-detector that fails does not stop the others: a finished      *)
(* detect_all_anomalies call has started all four sub-detectors, has       *)
(* returned, and its result holds every anomaly that each sub-detector     *)
(* which did not fail finds in the store.                                  *)
(***************************************************************************)
C1_FailureIsolated ==
    Finished("detect_all_anomalies") =>
        /\ outcome = "returned"
        /\ started = Detectors
        /\ \A k \in 1..Len(Detectors) :
              Detectors[k] \notin failed =>
                  \A expected \in { FaultFree(Detectors[k]).anomalies } :
                      \A i \in 1..Len(expected) :
                          \E j \in 1..Len(result) : result[j] = expected[i]

\* a store fault in the metric detector, and the error-rate and restart
\* anomalies still returned
C1_Witness ==
    /\ Finished("detect_all_anomalies")
    /\ "metric_spikes" \in failed
    /\ \E j \in 1..Len(result) : result[j].type = "high_error_rate"
    /\ \E j \in 1..Len(result) : result[j].type = "container_restart_loop"

(***************************************************************************)
(* C2  No exception leaves detect_all_anomalies because of a sub-detector, *)
(* and a sub-detector that failed has no anomaly in the returned list.     *)
(***************************************************************************)
C2_FailedContributesNothing ==
    Finished("detect_all_anomalies") =>
        /\ outcome = "returned"
        /\ \A j \in 1..Len(result) :
              \A d \in failed : result[j].type \notin TypesOf(d)

(***************************************************************************)
(* C3  The list detect_all_anomalies returns is ordered by severity rank   *)
(* descending and, within a rank, by timestamp descending, and is a        *)
(* permutation of the concatenated sub-detector results.                   *)
(***************************************************************************)
C3_SortedPermutation ==
    (Finished("detect_all_anomalies") /\ outcome = "returned") =>
        /\ \A i, j \in 1..Len(result) :
              i < j =>
                \/ SeverityRank(result[i].severity) > SeverityRank(result[j].severity)
                \/ /\ SeverityRank(result[i].severity) = SeverityRank(result[j].severity)
                   /\ result[i].timestamp >= result[j].timestamp
        /\ Len(result) = Len(Concatenated)
        /\ \A i \in 1..Len(result) :
              Count(result, result[i]) = Count(Concatenated, result[i])

\* a result with two ranks and, within one rank, two timestamps, that the
\* sort had to reorder
C3_Witness ==
    /\ Finished("detect_all_anomalies")
    /\ outcome = "returned"
    /\ result # Concatenated
    /\ \E i, j \in 1..Len(result) :
          SeverityRank(result[i].severity) > SeverityRank(result[j].severity)
    /\ \E i, j \in 1..Len(result) :
          /\ result[i].severity = result[j].severity
          /\ result[i].timestamp > result[j].timestamp

\* z-scores 0.0 .. MaxZTenths / 10
MaxZTenths == 120

MaxBaselineSamples == 60

MaxRecentSamples == 12

\* consistencies 0, 1 / ConsistencySteps .. 1
ConsistencySteps == 4

ConfidenceWithinUnit ==
    \A z \in 0..MaxZTenths, nb \in 0..MaxBaselineSamples, nr \in 0..MaxRecentSamples,
       c \in 0..ConsistencySteps :
        LET confidence ==
                _calculate_confidence(100 * z, nb, nr, (1000 * c) \div ConsistencySteps)
        IN  0 <= confidence /\ confidence <= 1000

(***************************************************************************)
(* C4  Every anomaly a call returns has a confidence between 0 and 1, and  *)
(* _calculate_confidence stays between 0 and 1 for every z-score >= 0,     *)
(* every pair of sample counts >= 0 and every consistency in [0, 1], as    *)
(* _detect_trend produces.                                                 *)
(***************************************************************************)
C4_ConfidenceWithinUnit ==
    /\ ConfidenceWithinUnit
    /\ pc = "done" =>
          \A j \in 1..Len(result) :
              0 <= result[j].confidence /\ result[j].confidence <= 1000
    /\ MetricsDone =>
          \A analyses \in { metric_analyses } :
              \A k \in 1..Len(analyses) :
                  /\ 0 <= analyses[k].trend_analysis.consistency
                  /\ analyses[k].trend_analysis.consistency <= 1000
                  /\ 0 <= analyses[k].confidence
                  /\ analyses[k].confidence <= 1000

\* a returned metric anomaly whose confidence is strictly inside (0, 1), next
\* to one of another detector
C4_Witness ==
    /\ Finished("detect_all_anomalies")
    /\ \E j \in 1..Len(result) :
          /\ result[j].type = "cpu_usage_spike"
          /\ 0 < result[j].confidence
          /\ result[j].confidence < 1000
    /\ \E j \in 1..Len(result) : result[j].type = "high_error_rate"

(***************************************************************************)
(* C5  With fewer baseline rows than min_baseline_samples, or fewer recent *)
(* rows than min_recent_samples, the metric detector returns the empty     *)
(* list and raises nothing.                                                *)
(***************************************************************************)
C5_TooFewRowsNothing ==
    (pc = "done" /\ "metric_spikes" \in DOMAIN found
        /\ operation \in { "detect_all_anomalies", "detect_metric_spikes" }
        /\ ~EnoughRows) =>
        /\ outcome = "returned"
        /\ found["metric_spikes"] = << >>
        /\ operation = "detect_metric_spikes" => result = << >>

\* too few baseline rows, no store fault, and a CPU series that is flagged
\* with a confidence the configured min_confidence would let through
C5_Witness ==
    /\ Finished("detect_metric_spikes")
    /\ "metric_spikes" \notin failed
    /\ Len(BaselineMetrics) < thresholds.min_baseline_samples
    /\ Len(RecentMetrics) >= thresholds.min_recent_samples
    /\ result = << >>
    /\ \E analyses \in { Analyses } :
          \E k \in 1..Len(analyses) :
              /\ analyses[k].anomaly_detected
              /\ analyses[k].confidence >= thresholds.min_confidence

(***************************************************************************)
(* C6  The minimum-sample requirement holds per metric: every metric       *)
(* anomaly returned, under any thresholds, rests on at least               *)
(* min_baseline_samples baseline values and min_recent_samples recent      *)
(* values of its own metric.                                               *)
(***************************************************************************)
C6_PerMetricMinimum ==
    MetricsDone =>
        \A j \in 1..Len(found["metric_spikes"]) :
            /\ found["metric_spikes"][j].details.baseline_samples
                  >= thresholds.min_baseline_samples
            /\ found["metric_spikes"][j].details.recent_samples
                  >= thresholds.min_recent_samples

\* the returned anomalies of one type
OfType(returned, type) == SelectSeq(returned, LAMBDA a : a.type = type)

\* the percentage rule of a metric's configuration matches the analysis
PercentageRuleMatches(analysis, config) ==
    /\ config.percentage_threshold # Null
    /\ analysis.baseline_stats.mean > 0
    /\ (analysis.recent_stats.mean - analysis.baseline_stats.mean) * 100
          > config.percentage_threshold * analysis.baseline_stats.mean

\* the absolute rule matches the analysis
AbsoluteRuleMatches(analysis, limits) ==
    /\ analysis.metric_name = "tcp_connections"
    /\ analysis.recent_stats.mean - analysis.baseline_stats.mean
          > limits.connection_spike_threshold * 1000

(***************************************************************************)
(* C7  First match wins: a metric is flagged with method "zscore" exactly  *)
(* when its z-score reaches the metric's z-threshold; with "percentage"    *)
(* only when the z-score is below it and the recent mean exceeds the       *)
(* baseline mean by more than the percentage threshold; with "absolute"    *)
(* only for tcp_connections, below the z-threshold, when the recent mean   *)
(* exceeds the baseline mean by more than connection_spike_threshold; and  *)
(* when no rule matches the metric is not flagged and yields no anomaly.   *)
(***************************************************************************)
C7_FirstMatchWins ==
    (MetricsDone /\ EnoughRows) =>
        \A analyses \in { metric_analyses } :
            \A k \in 1..Len(analyses) :
                LET a      == analyses[k]
                    config == MetricsConfig(thresholds, a.metric_name)
                    zhit   == a.zscore >= config.zscore_threshold
                IN  /\ a.detection_method \in { "zscore", "percentage", "absolute", "none" }
                    /\ a.detection_method = "zscore" <=> zhit
                    /\ a.detection_method = "percentage" =>
                          ~zhit /\ PercentageRuleMatches(a, config)
                    /\ a.detection_method = "absolute" =>
                          ~zhit /\ AbsoluteRuleMatches(a, thresholds)
                    /\ a.anomaly_detected <=> a.detection_method # "none"
                    /\ (~zhit /\ ~PercentageRuleMatches(a, config)
                            /\ ~AbsoluteRuleMatches(a, thresholds)) =>
                          /\ a.detection_method = "none"
                          /\ OfType(found["metric_spikes"], SpikeType(a.metric_name)) = << >>
                    /\ \A j \in 1..Len(found["metric_spikes"]) :
                          found["metric_spikes"][j].type = SpikeType(a.metric_name) =>
                              found["metric_spikes"][j].details.detection_method
                                  = a.detection_method

\* one call whose four metrics get the four verdicts, the flagged ones returned
C7_Witness ==
    /\ Finished("detect_metric_spikes")
    /\ "metric_spikes" \notin failed
    /\ EnoughRows
    /\ \A method \in { "zscore", "percentage", "absolute" } :
          \E j \in 1..Len(result) : result[j].details.detection_method = method
    /\ \E analyses \in { metric_analyses } :
          \E k \in 1..Len(analyses) : analyses[k].detection_method = "none"

\* what detect_metric_spikes returns, under the default thresholds, for each
\* store content explored
DefaultReturns ==
    { _detect_metric_spikes(MetricTable(sc), AnomalyThresholds,
                            Now0 - MinutesPerHour, Now0, "none").anomalies :
        sc \in MetricScenarios \cup { MixedScenario, BusyScenario, QuietScenario } }

(***************************************************************************)
(* C8  Under the default thresholds the fallback rules are reachable:      *)
(* some store contents with enough rows make detect_metric_spikes return   *)
(* an anomaly with method "percentage", and some make it return a          *)
(* tcp_connections anomaly with method "absolute".                         *)
(***************************************************************************)
C8_FallbacksSurface ==
    /\ \E returned \in DefaultReturns :
          \E j \in 1..Len(returned) : returned[j].details.detection_method = "percentage"
    /\ \E returned \in DefaultReturns :
          \E j \in 1..Len(returned) :
              /\ returned[j].type = "tcp_connections_spike"
              /\ returned[j].details.detection_method = "absolute"

(***************************************************************************)
(* C9  Every metric anomaly returned has a confidence of at least          *)
(* min_confidence, and a metric that is flagged with a lower confidence    *)
(* has no anomaly in the result.                                           *)
(***************************************************************************)
C9_ConfidenceFloor ==
    MetricsDone =>
        /\ \A j \in 1..Len(found["metric_spikes"]) :
              found["metric_spikes"][j].confidence >= thresholds.min_confidence
        /\ \A analyses \in { metric_analyses } :
              \A k \in 1..Len(analyses) :
                  (analyses[k].anomaly_detected
                      /\ analyses[k].confidence < thresholds.min_confidence) =>
                      OfType(result, SpikeType(analyses[k].metric_name)) = << >>

\* one flagged metric is returned and another, flagged with too low a
\* confidence, is not
C9_Witness ==
    /\ Finished("detect_metric_spikes")
    /\ "metric_spikes" \notin failed
    /\ result # << >>
    /\ \E analyses \in { metric_analyses } :
          \E k \in 1..Len(analyses) :
              /\ analyses[k].anomaly_detected
              /\ analyses[k].confidence < thresholds.min_confidence
              /\ analyses[k].confidence > 0

(***************************************************************************)
(* C10  Scenario A.  The CPU analysis of a finished detect_metric_spikes   *)
(* call whose baseline CPU series has mean 40 and standard deviation 5 and *)
(* whose recent CPU series has mean 70, with enough rows of both.          *)
(***************************************************************************)
ScenarioA(analysis) ==
    /\ analysis.metric_name = "cpu_usage"
    /\ analysis.baseline_stats.mean = 40000
    /\ analysis.baseline_stats.std = 500
    /\ analysis.recent_stats.mean = 70000

ScenarioACall ==
    Finished("detect_metric_spikes") /\ "metric_spikes" \notin failed /\ EnoughRows

CatalogueTag(metric_name) ==
    CASE metric_name = "cpu_usage"       -> "cpu_spike"
      [] metric_name = "memory_usage"    -> "memory_spike"
      [] metric_name = "disk_usage"      -> "disk_spike"
      [] metric_name = "tcp_connections" -> "connection_spike"

(***************************************************************************)
(* C11  A spike detected on the CPU metric is returned with type tag       *)
(* "cpu_spike", one on memory with "memory_spike" and one on disk with     *)
(* "disk_spike", the tags of the catalogue and of the tests.               *)
(***************************************************************************)
C11_CatalogueTags ==
    MetricsDone =>
        \A j \in 1..Len(found["metric_spikes"]) :
            LET anomaly == found["metric_spikes"][j]
            IN  anomaly.description[1] \in { "cpu_usage", "memory_usage", "disk_usage" } =>
                    anomaly.type = CatalogueTag(anomaly.description[1])

\* confidences 0, 1 / ConfidenceSteps .. 1
ConfidenceSteps == 20

\* the configurations of high_confidence: the default, and one below 0.8
SeverityConfigurations ==
    { AnomalyThresholds, [AnomalyThresholds EXCEPT !.high_confidence = 600] }

\* the sample counts of the severity grid
SampleCounts == { << 0, 0 >>, << 11, 5 >>, << 25, 7 >>, << MaxBaselineSamples, MaxRecentSamples >> }

\* the severity of a z-score whose confidence is computed from it
SeverityOfZ(zscore, samples, consistency, metric_name, limits) ==
    _determine_severity(zscore,
                        _calculate_confidence(zscore, samples[1], samples[2], consistency),
                        metric_name, limits)

\* on the grid, a step up in z (confidence recomputed) does not lower the rank
MonotoneInZ ==
    \A k \in 1..Len(MetricNames), limits \in SeverityConfigurations,
       samples \in SampleCounts, c \in 0..ConsistencySteps, z \in 0..(MaxZTenths - 1) :
        SeverityRank(SeverityOfZ(100 * z, samples, (1000 * c) \div ConsistencySteps,
                                 MetricNames[k], limits))
          <= SeverityRank(SeverityOfZ(100 * (z + 1), samples,
                                      (1000 * c) \div ConsistencySteps,
                                      MetricNames[k], limits))

\* on the grid, a step up in confidence (z fixed) does not lower the rank
MonotoneInConfidence ==
    \A k \in 1..Len(MetricNames), limits \in SeverityConfigurations,
       z \in 0..MaxZTenths, c \in 0..(ConfidenceSteps - 1) :
        SeverityRank(_determine_severity(100 * z, (1000 * c) \div ConfidenceSteps,
                                         MetricNames[k], limits))
          <= SeverityRank(_determine_severity(100 * z, (1000 * (c + 1)) \div ConfidenceSteps,
                                              MetricNames[k], limits))

(***************************************************************************)
(* C12  Severity monotonicity: for every metric type, with the sample      *)
(* counts and the trend consistency fixed and the confidence computed from *)
(* the z-score, a larger z-score never gives a lower severity rank, and    *)
(* with z fixed a larger confidence never gives a lower rank.  On the      *)
(* grid, and for every analysis a call computed against every z-score and  *)
(* every confidence of the grid.                                           *)
(***************************************************************************)
C12_SeverityMonotone ==
    /\ MonotoneInZ
    /\ MonotoneInConfidence
    /\ MetricsDone =>
         \A analyses \in { metric_analyses } :
             \A k \in 1..Len(analyses), z \in 0..MaxZTenths :
                 \A other \in { SeverityOfZ(100 * z,
                                            << analyses[k].baseline_samples,
                                               analyses[k].recent_samples >>,
                                            analyses[k].trend_analysis.consistency,
                                            analyses[k].metric_name, thresholds) } :
                     /\ 100 * z <= analyses[k].zscore =>
                          SeverityRank(other) <= SeverityRank(analyses[k].severity)
                     /\ 100 * z >= analyses[k].zscore =>
                          SeverityRank(other) >= SeverityRank(analyses[k].severity)

\* two analyses of one call on metrics with the same cuts: the one with the
\* larger z-score has the higher severity
C12_Witness ==
    /\ MetricsDone
    /\ \E i, j \in 1..Len(metric_analyses) :
          /\ metric_analyses[i].metric_name = "cpu_usage"
          /\ metric_analyses[j].metric_name = "memory_usage"
          /\ metric_analyses[i].zscore > metric_analyses[j].zscore
          /\ metric_analyses[j].zscore > 2000
          /\ SeverityRank(metric_analyses[i].severity)
                > SeverityRank(metric_analyses[j].severity)

\* the metric's lower high cut on the z-score
HighCut(metric_name) ==
    CASE metric_name \in { "cpu_usage", "memory_usage" } -> 2500
      [] metric_name = "tcp_connections"                 -> 3000
      [] OTHER                                           -> 3000

\* the metric's critical cut on the z-score
CriticalCut(metric_name) ==
    CASE metric_name \in { "cpu_usage", "memory_usage" } -> 3500
      [] metric_name = "tcp_connections"                 -> 4500
      [] OTHER                                           -> 4000

\* the severity the rule gives to a z-score and a confidence
RuleSeverity(zscore, confidence, metric_name, limits) ==
    IF \/ zscore >= CriticalCut(metric_name) /\ confidence >= limits.high_confidence
       \/ zscore >= HighCut(metric_name) /\ confidence >= 800
    THEN "HIGH"
    ELSE IF zscore >= 2000 /\ confidence >= 700 THEN "MEDIUM" ELSE "LOW"

\* on the grid of z-scores and confidences, for every metric and both
\* configurations of high_confidence, the code gives the rule's severity
SeverityRuleOnGrid ==
    \A k \in 1..Len(MetricNames), limits \in SeverityConfigurations,
       z \in 0..MaxZTenths, c \in 0..ConfidenceSteps :
        _determine_severity(100 * z, (1000 * c) \div ConfidenceSteps, MetricNames[k], limits)
          = RuleSeverity(100 * z, (1000 * c) \div ConfidenceSteps, MetricNames[k], limits)

\* the cuts of cpu and memory are no larger than those of disk and tcp
CutsOrdered ==
    \A a \in { "cpu_usage", "memory_usage" }, b \in { "disk_usage", "tcp_connections" } :
        HighCut(a) <= HighCut(b) /\ CriticalCut(a) <= CriticalCut(b)

(***************************************************************************)
(* C13  The severity of a metric anomaly is HIGH exactly when z >= the     *)
(* metric's critical cut and confidence >= high_confidence, or z >= the    *)
(* metric's lower high cut and confidence >= 0.8; otherwise MEDIUM exactly *)
(* when z >= 2.0 and confidence >= 0.7; otherwise LOW; and the cuts of cpu *)
(* and memory are no larger than those of disk and tcp_connections.  On    *)
(* the grid, on every analysis and on every metric anomaly returned.       *)
(***************************************************************************)
C13_SeverityRule ==
    /\ SeverityRuleOnGrid
    /\ CutsOrdered
    /\ MetricsDone =>
         /\ \A k \in 1..Len(metric_analyses) :
               metric_analyses[k].severity
                 = RuleSeverity(metric_analyses[k].zscore, metric_analyses[k].confidence,
                                metric_analyses[k].metric_name, thresholds)
         /\ \A j \in 1..Len(found["metric_spikes"]) :
               found["metric_spikes"][j].severity
                 = RuleSeverity(found["metric_spikes"][j].details.zscore,
                                found["metric_spikes"][j].confidence,
                                found["metric_spikes"][j].description[1], thresholds)

\* a call that returns a MEDIUM metric anomaly whose z-score is above its
\* metric's critical cut: the confidence, between 0.7 and 0.8, decides
C13_Witness ==
    /\ MetricsDone
    /\ \E i \in 1..Len(found["metric_spikes"]) :
          /\ found["metric_spikes"][i].severity = "MEDIUM"
          /\ found["metric_spikes"][i].details.zscore
                >= CriticalCut(found["metric_spikes"][i].description[1])
          /\ found["metric_spikes"][i].confidence >= 700
          /\ found["metric_spikes"][i].confidence < 800

\* the log rows a call reads
WindowLogs == SelectRowsFrom(logs, start_time)

\* the places (row, token) of the window's log messages that hold an address
AddressPlaces ==
    { p \in UNION { { k } \X (1..Len(WindowLogs[k].message)) : k \in 1..Len(WindowLogs) } :
          WindowLogs[p[1]].message[p[2]].kind = "ip" }

\* the addresses found in the window's log messages
WindowAddresses == { WindowLogs[p[1]].message[p[2]].octets : p \in AddressPlaces }

\* the number of times an address is found in the window's log messages
Occurrences(ip) ==
    Cardinality({ p \in AddressPlaces : WindowLogs[p[1]].message[p[2]].octets = ip })

\* the IP detector has run in a call in which no store query raised
IpDone ==
    /\ pc = "done"
    /\ operation \in { "detect_all_anomalies", "detect_ip_anomalies" }
    /\ faults = 0

(***************************************************************************)
(* C14  For every non-private IPv4 address that appears in the window's    *)
(* log messages more than thresholds.ip_request_threshold times, the IP    *)
(* detector returns exactly one ip_request_spike with affected_resource    *)
(* "ip_" + address, severity HIGH if the count exceeds 500 and MEDIUM      *)
(* otherwise, and requests_per_hour = count / max(span in hours, 1).       *)
(***************************************************************************)
C14_IpRequestSpike ==
    IpDone =>
        \A ip \in WindowAddresses :
            (~_is_private_ip(ip) /\ Occurrences(ip) > thresholds.ip_request_threshold) =>
                /\ Len(SelectSeq(found["ip"],
                                 LAMBDA a : a.type = "ip_request_spike"
                                            /\ a.affected_resource = IpResource(ip))) = 1
                /\ \A j \in 1..Len(found["ip"]) :
                      found["ip"][j].affected_resource = IpResource(ip) =>
                          /\ found["ip"][j].severity
                                = (IF Occurrences(ip) > 500 THEN "HIGH" ELSE "MEDIUM")
                          /\ found["ip"][j].details.requests_per_hour
                                = (Occurrences(ip) * MinutesPerHour * 100)
                                      \div Max(found["ip"][j].details.time_span,
                                               MinutesPerHour)

\* the first and second octets tried: the edges of the private blocks
FirstOctets == { 9, 10, 11, 126, 127, 128, 171, 172, 173, 191, 192, 193, 203 }
SecondOctets == { 0, 15, 16, 20, 31, 32, 51, 167, 168, 169, 255 }

\* the address lies in the block net/len, len <= 16, read on its first two octets
InBlock(ip, net, len) ==
    (ip[1] * 256 + ip[2]) \div (2 ^ (16 - len)) = (net[1] * 256 + net[2]) \div (2 ^ (16 - len))

\* 10.0.0.0/8, 172.16.0.0/12, 192.168.0.0/16 or 127.0.0.0/8
InPrivateBlock(ip) ==
    \/ InBlock(ip, << 10, 0 >>, 8)
    \/ InBlock(ip, << 172, 16 >>, 12)
    \/ InBlock(ip, << 192, 168 >>, 16)
    \/ InBlock(ip, << 127, 0 >>, 8)

\* every address of the four private blocks is taken for private
PrivateBlocksFiltered ==
    \A a \in FirstOctets, b \in SecondOctets, c \in { 0, 113 }, d \in { 1, 9 } :
        InPrivateBlock(<< a, b, c, d >>) => _is_private_ip(<< a, b, c, d >>)

(***************************************************************************)
(* C15  No ip_request_spike is ever emitted for an address in 10/8,        *)
(* 172.16/12, 192.168/16 or 127/8, however often it appears: such an       *)
(* address is filtered before it is counted, so ip_requests never holds    *)
(* one and no returned anomaly names one.                                  *)
(***************************************************************************)
C15_NoPrivateSpike ==
    /\ PrivateBlocksFiltered
    /\ pc = "done" =>
          /\ \A hits \in { IpHits(WindowLogs) } :
                \A k \in 1..Len(hits) : ~InPrivateBlock(hits[k].ip)
          /\ \A j \in 1..Len(result) :
                result[j].type = "ip_request_spike" =>
                    ~InPrivateBlock(result[j].details.ip_address)

\* the IP detector ran to its end on a window in which a private address
\* appears more often than the threshold, and returned nothing
C15_Witness ==
    /\ IpDone
    /\ "ip" \notin failed
    /\ \E ip \in WindowAddresses :
          /\ InPrivateBlock(ip)
          /\ Occurrences(ip) > thresholds.ip_request_threshold
    /\ found["ip"] = << >>

\* the error-rate detector has run in a call in which no store query raised
ErrorRateDone ==
    /\ pc = "done"
    /\ operation \in { "detect_all_anomalies", "detect_error_rate_anomalies" }
    /\ faults = 0

\* the containers of the window's log rows, "unknown" for a row without one
WindowContainers == { ContainerOf(WindowLogs[k]) : k \in 1..Len(WindowLogs) }

\* the window's log rows of a container, and those of them that are errors
TotalLogs(container) ==
    Cardinality({ k \in 1..Len(WindowLogs) : ContainerOf(WindowLogs[k]) = container })

ErrorLogs(container) ==
    Cardinality({ k \in 1..Len(WindowLogs) :
                      /\ ContainerOf(WindowLogs[k]) = container
                      /\ MessageHasErrorKeyword(WindowLogs[k].message) })

\* the high_error_rate anomalies returned for a container
ErrorRateAnomalies(container) ==
    SelectSeq(found["error_rate"],
              LAMBDA a : a.type = "high_error_rate" /\ a.affected_resource = container)

(***************************************************************************)
(* C16  The error-rate detector emits a high_error_rate anomaly for a      *)
(* container exactly when the container has at least 10 log rows in the    *)
(* window and errors / total * 100 > thresholds.error_rate_threshold; the  *)
(* severity is HIGH when the rate is above 25 and MEDIUM otherwise; and it *)
(* emits nothing else.                                                     *)
(***************************************************************************)
C16_HighErrorRate ==
    ErrorRateDone =>
        /\ \A container \in WindowContainers :
              \A emitted \in { ErrorRateAnomalies(container) },
                 total \in { TotalLogs(container) }, errors \in { ErrorLogs(container) } :
                  /\ Len(emitted) <= 1
                  /\ Len(emitted) = 1 <=>
                        (total >= 10 /\ errors * 100 > thresholds.error_rate_threshold * total)
                  /\ \A j \in 1..Len(emitted) :
                        emitted[j].severity
                          = (IF errors * 100 > 25 * total THEN "HIGH" ELSE "MEDIUM")
        /\ \A j \in 1..Len(found["error_rate"]) :
              /\ found["error_rate"][j].type = "high_error_rate"
              /\ found["error_rate"][j].affected_resource \in WindowContainers

\* one call that emits a MEDIUM anomaly for a container and none for another
\* container with at least ten rows
C16_Witness ==
    /\ ErrorRateDone
    /\ \E a, b \in WindowContainers :
          /\ Len(ErrorRateAnomalies(a)) = 1
          /\ ErrorRateAnomalies(a)[1].severity = "MEDIUM"
          /\ TotalLogs(b) >= 10
          /\ ErrorRateAnomalies(b) = << >>

\* the event detector has run to its end in a call in which no store query raised
EventsDone ==
    /\ pc = "done"
    /\ operation \in { "detect_all_anomalies", "detect_event_anomalies" }
    /\ faults = 0
    /\ "events" \notin failed

\* the event rows a call reads
WindowEvents == SelectRowsFrom(events, start_time)

\* the containers named by the window's event rows
EventContainers ==
    { WindowEvents[k].container : k \in 1..Len(WindowEvents) } \ { NoText }

\* the number of the container's events in the window whose action contains "restart"
RestartCount(container) ==
    Cardinality({ k \in 1..Len(WindowEvents) :
                      /\ WindowEvents[k].container = container
                      /\ WindowEvents[k].action \notin { NoText, NonText }
                      /\ Lower(WindowEvents[k].action) \in RestartWords })

\* the container_restart_loop anomalies returned for a container
RestartAnomalies(container) ==
    SelectSeq(found["events"],
              LAMBDA a : a.type = "container_restart_loop" /\ a.affected_resource = container)

(***************************************************************************)
(* C17  The event detector emits a HIGH container_restart_loop anomaly for *)
(* a container exactly when the number of the container's events in the    *)
(* window whose action contains "restart" exceeds the configured           *)
(* thresholds.container_restart_threshold, whatever value that threshold   *)
(* is configured to.                                                       *)
(***************************************************************************)
C17_RestartLoopThreshold ==
    EventsDone =>
        \A container \in EventContainers :
            \A emitted \in { RestartAnomalies(container) } :
                /\ Len(emitted) <= 1
                /\ Len(emitted) = 1 <=>
                      RestartCount(container) > thresholds.container_restart_threshold
                /\ \A j \in 1..Len(emitted) : emitted[j].severity = "HIGH"

\* the high_event_volume anomalies returned
VolumeAnomalies ==
    SelectSeq(found["events"], LAMBDA a : a.type = "high_event_volume")

(***************************************************************************)
(* C18  The event detector emits exactly one MEDIUM high_event_volume      *)
(* anomaly when the number of events in the window exceeds the configured  *)
(* thresholds.event_volume_threshold and none otherwise, whatever value    *)
(* that threshold is configured to.                                        *)
(***************************************************************************)
C18_EventVolumeThreshold ==
    EventsDone =>
        \A emitted \in { VolumeAnomalies } :
            /\ Len(emitted) <= 1
            /\ Len(emitted) = 1 <=> Len(WindowEvents) > thresholds.event_volume_threshold
            /\ \A j \in 1..Len(emitted) : emitted[j].severity = "MEDIUM"

\* the samples with now - B <= timestamp < now - L, ordered by timestamp
WindowBaseline ==
    OrderByTimestamp(SelectRows(metrics,
                                clock - thresholds.baseline_hours * MinutesPerHour,
                                clock - lookback_hours * MinutesPerHour))

\* the samples with now - L <= timestamp < now, ordered by timestamp
WindowRecent ==
    OrderByTimestamp(SelectRows(metrics, clock - lookback_hours * MinutesPerHour, clock))

(***************************************************************************)
(* C19  For a call at time now with lookback L hours and baseline_hours B, *)
(* the baseline series consists of exactly the samples with                *)
(* now - B <= timestamp < now - L and the recent series of exactly the     *)
(* samples with now - L <= timestamp < now: the rows the call reads are    *)
(* those, and every analysis counts the metric's values of those rows.     *)
(***************************************************************************)
C19_Windows ==
    MetricsDone =>
        \A baseline \in { WindowBaseline }, recent \in { WindowRecent } :
            /\ BaselineMetrics = baseline
            /\ RecentMetrics = recent
            /\ \A k \in 1..Len(metric_analyses) :
                  /\ metric_analyses[k].baseline_samples
                        = Len(MetricValues(baseline, metric_analyses[k].metric_name))
                  /\ metric_analyses[k].recent_samples
                        = Len(MetricValues(recent, metric_analyses[k].metric_name))

\* other contents of comparison_windows: none, one, the default reversed,
\* and a window that admits no row before now
OtherWindows == { << >>, << 1 >>, << 6, 3, 1 >>, << 0, 2 >> }

\* the primary verdict of an analysis
Verdict(analysis) ==
    [metric_name      |-> analysis.metric_name,
     anomaly_detected |-> analysis.anomaly_detected,
     detection_method |-> analysis.detection_method,
     zscore           |-> analysis.zscore,
     confidence       |-> analysis.confidence,
     severity         |-> analysis.severity]

\* the analyses of the call's rows had comparison_windows been windows
AnalysesWith(windows) ==
    _analyze_metrics_statistically(BaselineMetrics, RecentMetrics,
                                   [thresholds EXCEPT !.comparison_windows = windows], clock)

\* one entry per configured window, in the configured order, flagged exactly
\* when it has a z-score of at least 1.5
Corroboration(window_anomalies, windows) ==
    /\ Len(window_anomalies) = Len(windows)
    /\ \A i \in 1..Len(windows) :
          /\ window_anomalies[i].window_hours = windows[i]
          /\ window_anomalies[i].anomaly
               <=> (window_anomalies[i].zscore # Null /\ window_anomalies[i].zscore >= 1500)

(***************************************************************************)
(* C20  Multi-window corroboration never changes the primary verdict: for  *)
(* every metric, anomaly_detected, detection_method, zscore, confidence    *)
(* and severity are the same whatever comparison_windows contains, and the *)
(* corroboration only adds one entry per configured window, in configured  *)
(* order and flagged exactly when its z-score is at least 1.5, to          *)
(* window_anomalies, in the analysis and in the returned anomaly.          *)
(***************************************************************************)
C20_CorroborationOnlyAdds ==
    (MetricsDone /\ EnoughRows) =>
        /\ \A windows \in OtherWindows :
              \A others \in { AnalysesWith(windows) } :
                  /\ Len(others) = Len(metric_analyses)
                  /\ \A k \in 1..Len(others) :
                        /\ Verdict(others[k]) = Verdict(metric_analyses[k])
                        /\ Corroboration(others[k].window_anomalies, windows)
        /\ \A k \in 1..Len(metric_analyses) :
              Corroboration(metric_analyses[k].window_anomalies, thresholds.comparison_windows)
        /\ \A j \in 1..Len(found["metric_spikes"]) :
              Corroboration(found["metric_spikes"][j].details.window_anomalies,
                            thresholds.comparison_windows)

\* a returned metric anomaly with two windows, one with the primary z-score
\* and one, flagged, with another
C20_Witness ==
    /\ MetricsDone
    /\ EnoughRows
    /\ \E j \in 1..Len(found["metric_spikes"]) :
          \E h, i \in 1..Len(found["metric_spikes"][j].details.window_anomalies) :
              /\ found["metric_spikes"][j].details.window_anomalies[h].zscore
                    = found["metric_spikes"][j].details.zscore
              /\ found["metric_spikes"][j].details.window_anomalies[i].anomaly
              /\ found["metric_spikes"][j].details.window_anomalies[i].zscore
                    # found["metric_spikes"][j].details.zscore

\* the metric detector has run in a call in which no store query raised
MetricsRan ==
    /\ pc = "done"
    /\ operation \in { "detect_all_anomalies", "detect_metric_spikes" }
    /\ faults = 0

\* the values of a metric in the rows that are neither NULL nor non-numeric
NumericValues(rows, metric_name) ==
    SelectSeq([i \in 1..Len(rows) |-> GetAttr(rows[i], metric_name)],
              LAMBDA v : v # Null /\ v # NonNumeric)

\* the analyses computed for a metric
AnalysesOf(metric_name) ==
    SelectSeq(metric_analyses, LAMBDA a : a.metric_name = metric_name)

(***************************************************************************)
(* C21  A metrics row whose value for a metric is NULL or non-numeric is   *)
(* dropped from that metric's statistics input only: the call does not     *)
(* fail, and every metric that has a numeric value left in both windows is *)
(* analysed on exactly its numeric values, whatever the other values of    *)
(* that metric and of the other metrics are.                               *)
(***************************************************************************)
C21_MalformedDropped ==
    (MetricsRan /\ EnoughRows) =>
        /\ "metric_spikes" \notin failed
        /\ \A k \in 1..Len(MetricNames) :
              \A baseline_values \in { NumericValues(BaselineMetrics, MetricNames[k]) },
                 recent_values \in { NumericValues(RecentMetrics, MetricNames[k]) } :
                  (baseline_values # << >> /\ recent_values # << >>) =>
                      \A mine \in { AnalysesOf(MetricNames[k]) } :
                          /\ Len(mine) = 1
                          /\ \A j \in 1..Len(mine) :
                                /\ mine[j].baseline_samples = Len(baseline_values)
                                /\ mine[j].recent_samples = Len(recent_values)

\* values (thousandths), means (thousandths) and standard deviations
\* (hundredths) tried
ValuesTried == { 0, 10000, 39999, 40000, 70000, 100000 }
MeansTried  == { 0, 40000, 55500 }
StdsTried   == { 0, 1, 500, 2000 }

\* series with no spread: empty, a single sample, equal samples
FlatSeries == { << >>, << 40 >>, << 0 >>, << 40, 40 >>, << 0, 0, 0 >>, << 73, 73, 73, 73 >> }

\* z is the quotient |value - mean| / std in thousandths, rounded down
IsQuotient(z, valueM, stats) ==
    /\ z >= 0
    /\ z * stats.std <= Abs(valueM - stats.mean) * 100
    /\ Abs(valueM - stats.mean) * 100 < (z + 1) * stats.std

\* the z-score is 0 for a zero standard deviation and the quotient otherwise
ZScoreRule(z, valueM, stats) ==
    IF stats.std = 0 THEN z = 0 ELSE IsQuotient(z, valueM, stats)

ZScoreOnGrid ==
    /\ \A v \in ValuesTried, m \in MeansTried, sd \in StdsTried :
          ZScoreRule(_calculate_zscore(v, [mean |-> m, std |-> sd]), v, [mean |-> m, std |-> sd])
    /\ \A values \in FlatSeries, v \in ValuesTried :
          /\ _calculate_statistics(values).std = 0
          /\ Len(values) < 2 => _calculate_statistics(values) = [mean |-> 0, std |-> 0]
          /\ _calculate_zscore(v, _calculate_statistics(values)) = 0

(***************************************************************************)
(* C22  zscore(value, stats) is exactly 0 whenever the baseline standard   *)
(* deviation is 0, the all-zero statistics of fewer than two samples       *)
(* included, for every value; otherwise it is |value - mean| / stddev,     *)
(* which is never negative.  On the grid, and for the z-score of every     *)
(* analysis and of every window of every call.                             *)
(***************************************************************************)
C22_ZScore ==
    /\ ZScoreOnGrid
    /\ MetricsDone =>
          \A k \in 1..Len(metric_analyses) :
              /\ ZScoreRule(metric_analyses[k].zscore, metric_analyses[k].recent_stats.mean,
                            metric_analyses[k].baseline_stats)
              /\ \A i \in 1..Len(metric_analyses[k].window_anomalies) :
                    metric_analyses[k].window_anomalies[i].zscore # Null =>
                        /\ metric_analyses[k].window_anomalies[i].zscore >= 0
                        /\ metric_analyses[k].baseline_stats.std = 0 =>
                              metric_analyses[k].window_anomalies[i].zscore = 0

\* an analysis whose baseline has no spread and whose recent mean lies far
\* from the baseline mean: the z-score is 0
C22_Witness ==
    /\ MetricsDone
    /\ \E k \in 1..Len(metric_analyses) :
          /\ metric_analyses[k].baseline_samples >= 2
          /\ metric_analyses[k].baseline_stats.std = 0
          /\ metric_analyses[k].recent_stats.mean > metric_analyses[k].baseline_stats.mean + 20000
          /\ metric_analyses[k].zscore = 0

\* a detect_all_anomalies call has returned, no store query raised in it, and
\* an earlier such call with the same lookback returned before it
Repeated ==
    /\ pc = "done"
    /\ operation = "detect_all_anomalies"
    /\ outcome = "returned"
    /\ faults = 0
    /\ previous[lookback_hours] # << >>

NothingRetained ==
    /\ anomalies = << >>
    /\ \A d \in DOMAIN found : found[d] = << >>
    /\ metric_analyses = << >>
    /\ result = << >>
    /\ summary = << >>

\* what detect_all_anomalies returns from the store as it is when no store
\* query raises
DetectedNow ==
    SortAnomalies(FaultFree("metric_spikes").anomalies \o FaultFree("ip").anomalies
                    \o FaultFree("error_rate").anomalies \o FaultFree("events").anomalies)

\* the list a finished call returned is the one computed from the store,
\* the thresholds, the clock and the call's argument alone
ResultFromStoreAlone ==
    (pc = "done" /\ faults = 0 /\ outcome = "returned") =>
        result = IF operation \in { "detect_all_anomalies", "get_anomaly_summary" }
                 THEN DetectedNow
                 ELSE FaultFree(FirstDetector(operation)).anomalies

(***************************************************************************)
(* C24  Detection is stateless and read-only: no step of any detect_* or   *)
(* get_anomaly_summary call on the shared instance changes the thresholds  *)
(* object or the store contents, a call starts with nothing retained from  *)
(* the calls before it, and what a call returns is computed from the       *)
(* store, the thresholds and its argument alone, whichever calls preceded. *)
(***************************************************************************)
C24_StatelessReadOnly ==
    /\ [][<< thresholds, metrics, logs, events >>' = << thresholds, metrics, logs, events >>]_vars
    /\ []((pc \in { "metric_spikes", "ip", "error_rate", "events" } /\ started = << >>)
              => NothingRetained)
    /\ []ResultFromStoreAlone

\* a detect_event_anomalies call has returned its anomalies after a
\* detect_all_anomalies call that returned more
C24_Witness ==
    /\ pc = "done"
    /\ operation = "detect_event_anomalies"
    /\ outcome = "returned"
    /\ faults = 0
    /\ result # << >>
    /\ previous[lookback_hours] # << >>
    /\ Len(previous[lookback_hours][1]) > Len(result)

\* a get_anomaly_summary call has returned
SummaryDone == pc = "done" /\ operation = "get_anomaly_summary" /\ outcome = "returned"

\* the sum of the counts of a dictionary
RECURSIVE SumCounts(_, _)
SumCounts(counts, keys) ==
    IF keys = { } THEN 0
    ELSE LET key == CHOOSE key \in keys : TRUE
         IN  counts[key] + SumCounts(counts, keys \ { key })

InFixedOrder ==
    operation \in { "detect_all_anomalies", "get_anomaly_summary" } =>
        /\ Len(started) <= Len(Detectors)
        /\ \A i \in 1..Len(started) : started[i] = Detectors[i]
        /\ pc \in { "metric_spikes", "ip", "error_rate", "events" } =>
              Len(started) < Len(Detectors) /\ pc = Detectors[Len(started) + 1]
        /\ (pc = "sort" \/ (pc = "done" /\ outcome = "returned")) => started = Detectors

\* a sub-detector issues its queries once: two for the metric detector (one
\* if the first raises), one for each of the others
QueriesBounded ==
    /\ queries <= 5
    /\ queries <= Len(started) + 1
    /\ faults <= queries

(***************************************************************************)
(* C26  Within one detect_all_anomalies call the four sub-detectors are    *)
(* started in the fixed order metric spikes, IP burst, error rate, events, *)
(* each exactly once and each only after the previous one has finished; a  *)
(* store fetch that fails is never retried, so the call issues at most     *)
(* five store queries; and the call always ends by returning a result.     *)
(***************************************************************************)
C26_OrderedBoundedTerminating ==
    /\ []InFixedOrder
    /\ []QueriesBounded
    /\ (operation = "detect_all_anomalies" /\ pc = "metric_spikes")
          ~> (operation = "detect_all_anomalies" /\ pc = "done" /\ outcome = "returned")

\* a detect_all_anomalies call has returned after one of its five store
\* queries raised
C26_Witness ==
    /\ Finished("detect_all_anomalies")
    /\ outcome = "returned"
    /\ started = Detectors
    /\ queries = 5
    /\ faults = 1
    /\ failed # { }

\* the metric anomalies of the call that are about a metric
SpikesOf(metric_name) ==
    SelectSeq(found["metric_spikes"], LAMBDA a : a.type = SpikeType(metric_name))

(***************************************************************************)
(* C27  A metric whose recent series has at most five values that are not  *)
(* NULL gets the trend "insufficient_data" with consistency 0, hence       *)
(* confidence 0, and detect_metric_spikes reports no anomaly for it when   *)
(* min_confidence is above 0, however large its z-score is, although       *)
(* min_recent_samples (5) lets such a series through.                      *)
(***************************************************************************)
C27_ShortSeriesSilent ==
    MetricsRan =>
        \A j \in 1..Len(metric_analyses) :
            metric_analyses[j].recent_samples <= 5 =>
                /\ metric_analyses[j].trend_analysis.trend = "insufficient_data"
                /\ metric_analyses[j].trend_analysis.consistency = 0
                /\ metric_analyses[j].confidence = 0
                /\ thresholds.min_confidence > 0 =>
                      SpikesOf(metric_analyses[j].metric_name) = << >>

\* five recent rows pass min_recent_samples, a metric is detected by its
\* z-score well above its threshold, and no anomaly is reported for it
C27_Witness ==
    /\ MetricsRan
    /\ thresholds.min_confidence > 0
    /\ thresholds.min_recent_samples = 5
    /\ \E j \in 1..Len(metric_analyses) :
          /\ metric_analyses[j].recent_samples = 5
          /\ metric_analyses[j].detection_method = "zscore"
          /\ metric_analyses[j].zscore >= 3000
          /\ SpikesOf(metric_analyses[j].metric_name) = << >>

\* the values of a series are all the same
AllEqual(values) == \A i, k \in 1..Len(values) : values[i] = values[k]

VerdictAt(analysis, recent_avg) ==
    LET zscore == _calculate_zscore(recent_avg, analysis.baseline_stats)
        confidence == _calculate_confidence(zscore, analysis.baseline_samples,
                                            analysis.recent_samples,
                                            analysis.trend_analysis.consistency)
    IN  [by_zscore  |-> DetectionMethod(zscore, recent_avg, analysis.baseline_stats,
                                        MetricsConfig(thresholds, analysis.metric_name),
                                        analysis.metric_name, thresholds) = "zscore",
         zscore     |-> zscore,
         confidence |-> confidence,
         severity   |-> _determine_severity(zscore, confidence, analysis.metric_name,
                                            thresholds)]

\* the recent mean as far on the other side of the baseline mean
Mirrored(analysis) == 2 * analysis.baseline_stats.mean - analysis.recent_stats.mean

(***************************************************************************)
(* C29  Z-score detection does not look at the direction: with the same    *)
(* baseline, sample counts and trend consistency, a recent mean d below    *)
(* the baseline mean gets the same z-score verdict, z-score, confidence    *)
(* and severity as a recent mean d above it, and the anomaly it yields is  *)
(* typed and worded as a spike; the percentage and absolute fallbacks fire *)
(* only for a recent mean above the baseline mean.                         *)
(***************************************************************************)
C29_DirectionAgnostic ==
    MetricsRan =>
        /\ \A j \in 1..Len(metric_analyses) :
              /\ \A here \in { VerdictAt(metric_analyses[j], metric_analyses[j].recent_stats.mean) } :
                    /\ here = VerdictAt(metric_analyses[j], Mirrored(metric_analyses[j]))
                    /\ here.zscore = metric_analyses[j].zscore
                    /\ here.confidence = metric_analyses[j].confidence
                    /\ here.severity = metric_analyses[j].severity
                    /\ here.by_zscore = (metric_analyses[j].detection_method = "zscore")
              /\ metric_analyses[j].detection_method \in { "percentage", "absolute" } =>
                    metric_analyses[j].recent_stats.mean > metric_analyses[j].baseline_stats.mean
        /\ \A i \in 1..Len(found["metric_spikes"]) :
              found["metric_spikes"][i].details.detection_method = "zscore" =>
                  /\ found["metric_spikes"][i].type \in { SpikeType(MetricNames[k]) : k \in 1..Len(MetricNames) }
                  /\ found["metric_spikes"][i].description[2]
                         = "anomaly detected: standard deviations above baseline"

\* a drop is returned as a spike detected by its z-score
C29_Witness ==
    /\ MetricsRan
    /\ \E i \in 1..Len(found["metric_spikes"]) :
          /\ found["metric_spikes"][i].details.detection_method = "zscore"
          /\ found["metric_spikes"][i].details.recent_mean
                 < found["metric_spikes"][i].details.baseline_mean

(***************************************************************************)
(* C30  The list a detect_all_anomalies call returns holds at most one     *)
(* anomaly per pair of type and affected_resource: at most one per tracked *)
(* metric, so at most four metric anomalies, one ip_request_spike per IP   *)
(* address, one high_error_rate per container, one container_restart_loop  *)
(* per container and one high_event_volume.                                *)
(***************************************************************************)
C30_OnePerResource ==
    (Finished("detect_all_anomalies") /\ outcome = "returned") =>
        /\ \A i, k \in 1..Len(result) :
              (result[i].type = result[k].type
                  /\ result[i].affected_resource = result[k].affected_resource) => i = k
        /\ \A m \in 1..Len(MetricNames) : Len(OfType(result, SpikeType(MetricNames[m]))) <= 1
        /\ Len(SelectSeq(result, LAMBDA a : a.type \in { SpikeType(MetricNames[m]) : m \in 1..Len(MetricNames) })) <= 4
        /\ \A i, k \in 1..Len(result) :
              (result[i].type = "ip_request_spike" /\ result[k].type = "ip_request_spike"
                  /\ result[i].details.ip_address = result[k].details.ip_address) => i = k
        /\ \A i, k \in 1..Len(result) :
              (result[i].type \in { "high_error_rate", "container_restart_loop" }
                  /\ result[k].type = result[i].type
                  /\ result[i].details.container = result[k].details.container) => i = k
        /\ Len(OfType(result, "high_event_volume")) <= 1

\* a returned list with two anomalies of one type about different
\* containers, built from several logs or events of each, and two containers
\* that have an anomaly of each of two types
C30_Witness ==
    /\ Finished("detect_all_anomalies")
    /\ outcome = "returned"
    /\ Len(OfType(result, "high_error_rate")) >= 2
    /\ Len(OfType(result, "container_restart_loop")) >= 2
    /\ \E i, k \in 1..Len(result) :
          /\ result[i].type = "high_error_rate"
          /\ result[k].type = "container_restart_loop"
          /\ result[i].affected_resource = result[k].affected_resource
    /\ \E i \in 1..Len(result) : result[i].type \in { SpikeType(MetricNames[m]) : m \in 1..Len(MetricNames) }

====
